---- MODULE Spec2Model ----
(***************************************************************************)
(* The match-scoring pipeline of tailorjob (matcher v4.0):                 *)
(*   extract -> normalize -> compare -> base score -> transferability      *)
(*   fan-out -> final score -> explanation -> result.                      *)
(*                                                                         *)
(* Strings are TLA+ strings, taken apart with Len, SubSeq and \o, so that  *)
(* lower-casing, containment, replacement and the "N years" regular        *)
(* expression are computed the way the Python code computes them.          *)
(* Python floats are computed as binary64 values, rounded to nearest with  *)
(* ties to even; int() is truncation toward zero.  A transferability       *)
(* score is carried in tenths (7 stands for the float 0.7).                *)
(***************************************************************************)
EXTENDS Integers, Sequences, FiniteSets, TLC

VARIABLES
  pc,                \* position of the operation under way
  extractor_client,  \* CVExtractorV4.client is set
  assessor_client,   \* TransferabilityAssessor.client is set
  cv_extracted,      \* CVFacts as returned by the extraction capability
  job_requirements,  \* job_data["requirements_matrix"]
  cv_normalized,     \* normalize_cv_data(cv_extracted)
  job_normalized,    \* normalize_job_data(job_requirements)
  comparison,        \* compare_requirements(cv_normalized, job_normalized)
  base_scores,       \* calculate_base_scores(...)
  tasks,             \* the fan-out: one rating task per missing must-have
  transferability,   \* {"assessments": [...]} after the join
  scores,            \* calculate_final_scores(...)
  result,            \* what analyze_match returns
  prev_skills,       \* the skills scores before the last scorer re-run
  db,                \* the tables: jobs, cv_sections, cvs, cv_job_matches; the clock
  request            \* the POST /matching/analyze request under way

vars == <<pc, extractor_client, assessor_client, cv_extracted, job_requirements,
          cv_normalized, job_normalized, comparison, base_scores, tasks,
          transferability, scores, result, prev_skills, db, request>>

-----------------------------------------------------------------------------
(* Python built-ins on strings, lists and dicts                            *)

UpperAlpha == "ABCDEFGHIJKLMNOPQRSTUVWXYZ"
LowerAlpha == "abcdefghijklmnopqrstuvwxyz"
Digits == "0123456789"

CharAt(s, i) == SubSeq(s, i, i)

\* dict.get(key, default)
Get(d, key, default) == IF key \in DOMAIN d THEN d[key] ELSE default

\* the 1-based position of character c in s, 0 when absent
IndexOf(s, c) ==
  IF \E i \in 1..Len(s) : CharAt(s, i) = c
  THEN CHOOSE i \in 1..Len(s) : CharAt(s, i) = c
  ELSE 0

\* str.lower(), character by character (the string is split in halves to
\* keep the evaluation shallow)
RECURSIVE Lower(_)
Lower(s) ==
  IF Len(s) = 0 THEN s
  ELSE IF Len(s) = 1
  THEN (IF IndexOf(UpperAlpha, s) > 0
        THEN CharAt(LowerAlpha, IndexOf(UpperAlpha, s)) ELSE s)
  ELSE Lower(SubSeq(s, 1, Len(s) \div 2))
       \o Lower(SubSeq(s, Len(s) \div 2 + 1, Len(s)))

\* str.strip()
RECURSIVE Strip(_)
Strip(s) ==
  IF Len(s) > 0 /\ CharAt(s, 1) = " " THEN Strip(SubSeq(s, 2, Len(s)))
  ELSE IF Len(s) > 0 /\ CharAt(s, Len(s)) = " " THEN Strip(SubSeq(s, 1, Len(s) - 1))
  ELSE s

\* sub in s
Contains(s, sub) ==
  \E i \in 0..(Len(s) - Len(sub)) : SubSeq(s, i + 1, i + Len(sub)) = sub

\* s.replace(old, new): every non-overlapping occurrence, left to right
RECURSIVE Replace(_, _, _)
Replace(s, old, new) ==
  IF ~Contains(s, old) THEN s
  ELSE LET first == CHOOSE i \in 1..(Len(s) - Len(old) + 1) :
                      /\ SubSeq(s, i, i + Len(old) - 1) = old
                      /\ \A h \in 1..(i - 1) : SubSeq(s, h, h + Len(old) - 1) # old
       IN  SubSeq(s, 1, first - 1) \o new
             \o Replace(SubSeq(s, first + Len(old), Len(s)), old, new)

IsDigit(c) == IndexOf(Digits, c) > 0

\* int(s) for a string of decimal digits
RECURSIVE ParseInt(_)
ParseInt(s) ==
  IF Len(s) = 0 THEN 0
  ELSE ParseInt(SubSeq(s, 1, Len(s) - 1)) * Len(Digits)
       + (IndexOf(Digits, CharAt(s, Len(s))) - 1)

\* str(n) for n >= 0
RECURSIVE Str(_)
Str(n) ==
  IF n < Len(Digits) THEN CharAt(Digits, n + 1)
  ELSE Str(n \div Len(Digits)) \o CharAt(Digits, (n % Len(Digits)) + 1)

\* [f(x) for x in seq]
MapSeq(F(_), seq) == [i \in 1..Len(seq) |-> F(seq[i])]

\* [x for x in seq if P(x)]
RECURSIVE FilterSeq(_, _)
FilterSeq(P(_), seq) ==
  IF seq = <<>> THEN <<>>
  ELSE (IF P(Head(seq)) THEN <<Head(seq)>> ELSE <<>>) \o FilterSeq(P, Tail(seq))

Range(seq) == {seq[i] : i \in 1..Len(seq)}

Min(a, b) == IF a <= b THEN a ELSE b

-----------------------------------------------------------------------------
(* SkillNormalizer                                                         *)

SKILL_MAPPINGS ==
  <<
    <<"golang", "go">>, <<"go lang", "go">>, <<"javascript", "js">>,
    <<"typescript", "ts">>, <<"node.js", "nodejs">>, <<"node", "nodejs">>,
    <<"python3", "python">>, <<"python 3", "python">>, <<"c++", "cpp">>,
    <<"c#", "csharp">>, <<".net", "dotnet">>, <<"react.js", "react">>,
    <<"reactjs", "react">>, <<"react js", "react">>, <<"angular.js", "angular">>,
    <<"angularjs", "angular">>, <<"angular js", "angular">>, <<"vue.js", "vue">>,
    <<"vuejs", "vue">>, <<"vue js", "vue">>, <<"next.js", "nextjs">>,
    <<"nextjs", "nextjs">>, <<"django", "django">>, <<"flask", "flask">>,
    <<"fastapi", "fastapi">>, <<"express.js", "express">>, <<"expressjs", "express">>,
    <<"spring boot", "spring">>, <<"springboot", "spring">>, <<"aws", "amazon web services">>,
    <<"amazon web services", "amazon web services">>, <<"gcp", "google cloud">>, <<"google cloud platform", "google cloud">>,
    <<"google cloud", "google cloud">>, <<"azure", "azure">>, <<"azure cloud services", "azure">>,
    <<"microsoft azure", "azure">>, <<"postgres", "postgresql">>, <<"postgresql", "postgresql">>,
    <<"mongo", "mongodb">>, <<"mongodb", "mongodb">>, <<"mysql", "mysql">>,
    <<"mssql", "sql server">>, <<"sql server", "sql server">>, <<"microsoft sql server", "sql server">>,
    <<"redis", "redis">>, <<"dynamodb", "dynamodb">>, <<"cosmosdb", "cosmosdb">>,
    <<"git", "git">>, <<"github", "github">>, <<"gitlab", "gitlab">>,
    <<"docker", "docker">>, <<"k8s", "kubernetes">>, <<"kubernetes", "kubernetes">>,
    <<"jenkins", "jenkins">>, <<"circleci", "circleci">>, <<"github actions", "github actions">>,
    <<"gitlab ci", "gitlab ci">>, <<"terraform", "terraform">>, <<"ansible", "ansible">>,
    <<"spark", "apache spark">>, <<"apache spark", "apache spark">>, <<"presto", "presto">>,
    <<"trino", "trino">>, <<"athena", "aws athena">>, <<"aws athena", "aws athena">>,
    <<"drill", "apache drill">>, <<"apache drill", "apache drill">>, <<"hadoop", "hadoop">>,
    <<"kafka", "apache kafka">>, <<"apache kafka", "apache kafka">>
  >>

\* SKILL_MAPPINGS.get(skill_lower, skill_lower)
\* MappingGet over a table in which the canonical name "js" is itself a
\* synonym of another entry
MappingGet_through_alias(skill_lower) ==
  IF skill_lower = "js" THEN "javascript"
  ELSE IF \E k \in 1..Len(SKILL_MAPPINGS) : SKILL_MAPPINGS[k][1] = skill_lower
  THEN SKILL_MAPPINGS[CHOOSE k \in 1..Len(SKILL_MAPPINGS) :
                        SKILL_MAPPINGS[k][1] = skill_lower][2]
  ELSE skill_lower

MappingGet(skill_lower) ==
  IF \E k \in 1..Len(SKILL_MAPPINGS) : SKILL_MAPPINGS[k][1] = skill_lower
  THEN SKILL_MAPPINGS[CHOOSE k \in 1..Len(SKILL_MAPPINGS) :
                        SKILL_MAPPINGS[k][1] = skill_lower][2]
  ELSE skill_lower

normalize_skill(skill) ==
  IF skill = "" THEN skill ELSE MappingGet(Strip(Lower(skill)))

\* the passes of the loop of _normalize_requirement_string for the table
\* entries lo..hi, in the table's order (the range is split in halves to keep
\* the evaluation shallow; no entry applies to "")
RECURSIVE NormalizeRange(_, _, _)
NormalizeRange(req_lower, lo, hi) ==
  IF Len(req_lower) = 0 THEN req_lower
  ELSE IF lo = hi
  THEN (IF Contains(req_lower, SKILL_MAPPINGS[lo][1])
        THEN Replace(req_lower, SKILL_MAPPINGS[lo][1], SKILL_MAPPINGS[lo][2])
        ELSE req_lower)
  ELSE NormalizeRange(NormalizeRange(req_lower, lo, (lo + hi) \div 2),
                      (lo + hi) \div 2 + 1, hi)

normalize_requirement_string(requirement) ==
  IF requirement = "" THEN requirement
  ELSE NormalizeRange(Lower(requirement), 1, Len(SKILL_MAPPINGS))

TechFields ==
  <<"skills", "languages", "frameworks", "cloud_platforms", "databases", "tools">>

\* a record with field f set to v (added when absent)
SetField(d, f, v) == [k \in DOMAIN d \cup {f} |-> IF k = f THEN v ELSE d[k]]

\* the entries of cv_data[field] (experience, projects), each with its
\* technologies normalized; an entry is a dict that the copy made by
\* cv_data.copy() shares with cv_data
normalize_technologies(d, field) ==
  IF field \in DOMAIN d
  THEN SetField(d, field,
         [i \in 1..Len(d[field]) |->
            IF "technologies" \in DOMAIN d[field][i]
            THEN SetField(d[field][i], "technologies",
                          MapSeq(normalize_skill, d[field][i].technologies))
            ELSE d[field][i]])
  ELSE d

\* cv_data once normalize_cv_data(cv_data) has returned: the top-level lists
\* are replaced in the copy only, the technologies of the shared entries are
\* replaced in place
cv_data_after_normalize(cv_data) ==
  normalize_technologies(normalize_technologies(cv_data, "experience"), "projects")

normalize_cv_data(cv_data) ==
  LET RECURSIVE FromField(_, _)
      FromField(d, k) ==
        IF k > Len(TechFields) THEN d
        ELSE FromField(
               IF TechFields[k] \in DOMAIN d
               THEN SetField(d, TechFields[k], MapSeq(normalize_skill, d[TechFields[k]]))
               ELSE d,
               k + 1)
  IN  cv_data_after_normalize(FromField(cv_data, 1))

normalize_job_data(job_data) ==
  LET Normalized(d, f) ==
        IF f \in DOMAIN d
        THEN SetField(d, f, MapSeq(normalize_requirement_string, d[f]))
        ELSE d
  IN  Normalized(Normalized(job_data, "must_have"), "nice_to_have")

get_all_cv_tech(cv_data) ==
  UNION {IF TechFields[k] \in DOMAIN cv_data THEN Range(cv_data[TechFields[k]]) ELSE {} :
           k \in 1..Len(TechFields)}

-----------------------------------------------------------------------------
(* Python floats: IEEE 754 binary64, round to nearest, ties to even.       *)
(* A natural number of any size is a sequence of limbs, least significant  *)
(* first, without leading zero limbs; a float is [neg, man, exp] with the  *)
(* value (-1)^neg * man * 2^exp, man a natural of exactly 53 bits, and     *)
(* [neg |-> FALSE, man |-> <<>>, exp |-> 0] for 0.0.                       *)

LimbBits == 15
LimbBase == 2^LimbBits

\* the bits of the significand of a binary64
Precision == 53

\* limb i of a, 0 beyond its length
Limb(a, i) == IF i <= Len(a) THEN a[i] ELSE 0

\* a without its leading zero limbs
BNorm(a) ==
  SubSeq(a, 1, CHOOSE n \in 0..Len(a) :
                 (n = 0 \/ a[n] # 0) /\ \A j \in (n + 1)..Len(a) : a[j] = 0)

\* a + b: limb i receives a carry when some lower limb overflows and every
\* limb between the two passes a carry on
BAdd(a, b) ==
  BNorm([i \in 1..((IF Len(a) > Len(b) THEN Len(a) ELSE Len(b)) + 1) |->
           (Limb(a, i) + Limb(b, i)
              + (IF \E j \in 1..(i - 1) :
                      /\ Limb(a, j) + Limb(b, j) >= LimbBase
                      /\ \A k \in (j + 1)..(i - 1) :
                            Limb(a, k) + Limb(b, k) = LimbBase - 1
                 THEN 1 ELSE 0)) % LimbBase])

\* a - b for a >= b: limb i lends when some lower limb falls short and every
\* limb between the two is level
BSub(a, b) ==
  BNorm([i \in 1..Len(a) |->
           (a[i] - Limb(b, i) + LimbBase
              - (IF \E j \in 1..(i - 1) :
                      /\ a[j] < Limb(b, j)
                      /\ \A k \in (j + 1)..(i - 1) : a[k] = Limb(b, k)
                 THEN 1 ELSE 0)) % LimbBase])

\* a * m + carry for one limb m
RECURSIVE BMulSmall(_, _, _)
BMulSmall(a, m, carry) ==
  IF a = <<>> THEN (IF carry = 0 THEN <<>> ELSE <<carry>>)
  ELSE <<(a[1] * m + carry) % LimbBase>>
         \o BMulSmall(Tail(a), m, (a[1] * m + carry) \div LimbBase)

\* a * b
RECURSIVE BMul(_, _)
BMul(a, b) ==
  IF b = <<>> THEN <<>>
  ELSE BAdd(BMulSmall(a, b[1], 0), <<0>> \o BMul(a, Tail(b)))

\* the rest of a divided by one limb d > 0
RECURSIVE BRest(_, _)
BRest(a, d) ==
  IF a = <<>> THEN 0 ELSE (BRest(Tail(a), d) * LimbBase + a[1]) % d

\* a \div d for one limb d > 0, by long division
BDivSmall(a, d) ==
  BNorm([i \in 1..Len(a) |->
           (BRest(SubSeq(a, i + 1, Len(a)), d) * LimbBase + a[i]) \div d])

\* -1, 0, 1 as a < b, a = b, a > b
BCmp(a, b) ==
  IF Len(a) < Len(b) THEN -1
  ELSE IF Len(a) > Len(b) THEN 1
  ELSE IF a = b THEN 0
  ELSE IF \E i \in 1..Len(a) : a[i] < b[i] /\ \A j \in (i + 1)..Len(a) : a[j] = b[j]
  THEN -1
  ELSE 1

\* the number of bits of a
BBitLen(a) ==
  IF a = <<>> THEN 0
  ELSE LimbBits * (Len(a) - 1)
         + CHOOSE n \in 1..LimbBits : 2^(n - 1) <= a[Len(a)] /\ a[Len(a)] < 2^n

\* a * 2^n
BShl(a, n) ==
  IF a = <<>> THEN a
  ELSE [i \in 1..(n \div LimbBits) |-> 0] \o BMulSmall(a, 2^(n % LimbBits), 0)

\* a \div 2^n
BShr(a, n) ==
  IF n \div LimbBits >= Len(a) THEN <<>>
  ELSE BDivSmall(SubSeq(a, n \div LimbBits + 1, Len(a)), 2^(n % LimbBits))

FZero == [neg |-> FALSE, man |-> <<>>, exp |-> 0]

\* the float (-1)^neg * man * 2^e for man of 53 bits, or of 54 bits with the
\* last one 0
FNormal(neg, man, e) ==
  IF BBitLen(man) > Precision
  THEN [neg |-> neg, man |-> BShr(man, 1), exp |-> e + 1]
  ELSE [neg |-> neg, man |-> man, exp |-> e]

\* the float nearest to (-1)^neg * (n + s) * 2^e, where 0 <= s < 1 and
\* sticky says s > 0; ties go to the even significand: of the bits that are
\* cut off, half a unit less one is added to n before the cut, and the one as
\* well if the kept part is odd or s > 0
FRound(neg, n, e, sticky) ==
  IF n = <<>> THEN FZero
  ELSE IF BBitLen(n) <= Precision
  THEN [neg |-> neg, man |-> BShl(n, Precision - BBitLen(n)),
        exp |-> e - (Precision - BBitLen(n))]
  ELSE FNormal(neg,
               BShr(BAdd(BAdd(n, BSub(BShl(<<1>>, BBitLen(n) - Precision - 1), <<1>>)),
                         IF sticky \/ BShr(n, BBitLen(n) - Precision)[1] % 2 = 1
                         THEN <<1>> ELSE <<>>),
                    BBitLen(n) - Precision),
               e + BBitLen(n) - Precision)

\* float(n) for an int n
FInt(n) ==
  LET m == IF n < 0 THEN -n ELSE n
  IN  FRound(n < 0,
             BNorm(<<m % LimbBase, (m \div LimbBase) % LimbBase,
                     m \div (LimbBase * LimbBase)>>),
             0, FALSE)

\* x * y
FMul(x, y) ==
  IF x.man = <<>> \/ y.man = <<>> THEN FZero
  ELSE FRound(x.neg # y.neg, BMul(x.man, y.man), x.exp + y.exp, FALSE)

\* x + y: the significands are brought to the lesser exponent
FAdd(x, y) ==
  IF x.man = <<>> THEN y
  ELSE IF y.man = <<>> THEN x
  ELSE LET e == IF x.exp <= y.exp THEN x.exp ELSE y.exp
           a == BShl(x.man, x.exp - e)
           b == BShl(y.man, y.exp - e)
       IN  FRound(IF x.neg = y.neg \/ BCmp(a, b) >= 0 THEN x.neg ELSE y.neg,
                  IF x.neg = y.neg THEN BAdd(a, b)
                  ELSE IF BCmp(a, b) >= 0 THEN BSub(a, b)
                  ELSE BSub(b, a),
                  e, FALSE)

\* the quotient is taken with this many bits more than the dividend has
GuardBits == 60

\* x / d for an int d of one limb, d # 0
FDivInt(x, d) ==
  IF x.man = <<>> THEN FZero
  ELSE FRound(x.neg # (d < 0),
              BDivSmall(BShl(x.man, GuardBits), IF d < 0 THEN -d ELSE d),
              x.exp - GuardBits,
              BRest(BShl(x.man, GuardBits), IF d < 0 THEN -d ELSE d) # 0)

\* the float literal n / 10^k written with the decimal digits of n, e.g. 0.8
FDecimal(n, scale) == FDivInt(FInt(n), scale)

\* int(x): truncation toward zero
FTrunc(x) ==
  LET whole == IF x.exp >= 0 THEN BShl(x.man, x.exp) ELSE BShr(x.man, -x.exp)
      magnitude == Limb(whole, 1) + LimbBase * Limb(whole, 2)
                     + LimbBase * LimbBase * Limb(whole, 3)
  IN  IF x.neg THEN -magnitude ELSE magnitude
-----------------------------------------------------------------------------
(* CVComparator                                                            *)

\* any(word in req_lower for word in words)
ContainsAny(s, words) == \E w \in words : Contains(s, w)

\* the three `continue` branches of _match_requirements: a degree, a
\* management and an experience-years requirement
SkippedFromSkills(req) ==
  \/ ContainsAny(Lower(req), {"degree", "bachelor", "master"})
  \/ ContainsAny(Lower(req), {"management", "lead"})
  \/ /\ Contains(Lower(req), "years")
     /\ ContainsAny(Lower(req), {"experience", "backend", "engineering"})

\* tech in req_lower or req_lower in tech
TechHit(tech, req_lower) == Contains(req_lower, tech) \/ Contains(tech, req_lower)

\* The verdicts of the generic skill loop, in requirement order.  cv_tech is
\* a Python set: the element the loop meets first is not determined, the
\* model takes one of the hits for the evidence.
SkillVerdict(req, cv_tech, req_type) ==
  IF \E tech \in cv_tech : TechHit(tech, Lower(req))
  THEN [requirement |-> req, status |-> "EXACT_MATCH",
        evidence |-> "CV lists: "
                     \o (CHOOSE tech \in cv_tech : TechHit(tech, Lower(req))),
        requirement_type |-> req_type]
  ELSE [requirement |-> req, status |-> "NOT_FOUND", evidence |-> "Not in CV",
        requirement_type |-> req_type]

RECURSIVE Verdicts(_, _, _)
Verdicts(requirements, cv_tech, req_type) ==
  IF requirements = <<>> THEN <<>>
  ELSE (IF SkippedFromSkills(Head(requirements)) THEN <<>>
        ELSE <<SkillVerdict(Head(requirements), cv_tech, req_type)>>)
       \o Verdicts(Tail(requirements), cv_tech, req_type)

\* _match_requirements without the three "handled separately" skips: every
\* requirement gets a verdict
match_requirements_unskipped(requirements, cv_tech, req_type) ==
  LET all == [i \in 1..Len(requirements) |->
                SkillVerdict(requirements[i], cv_tech, req_type)]
  IN  [matched |-> FilterSeq(LAMBDA v : v.status = "EXACT_MATCH", all),
       missing |-> FilterSeq(LAMBDA v : v.status = "NOT_FOUND", all)]

match_requirements(requirements, cv_tech, req_type) ==
  [matched |-> FilterSeq(LAMBDA v : v.status = "EXACT_MATCH",
                         Verdicts(requirements, cv_tech, req_type)),
   missing |-> FilterSeq(LAMBDA v : v.status = "NOT_FOUND",
                         Verdicts(requirements, cv_tech, req_type))]

\* re.search(r'(\d+)\+?\s*years?', s): the match that starts at position i.
\* The digits are followed by a non-digit in every match, so group 1 is the
\* whole run of digits from i.
RECURSIVE DigitRunEnd(_, _)
DigitRunEnd(s, i) ==
  IF i < Len(s) /\ IsDigit(CharAt(s, i + 1)) THEN DigitRunEnd(s, i + 1) ELSE i

YearsMatchAt(s, i) ==
  /\ IsDigit(CharAt(s, i))
  /\ LET AfterPlus(k) == IF k <= Len(s) /\ CharAt(s, k) = "+" THEN k + 1 ELSE k
         RECURSIVE SkipSpaces(_)
         SkipSpaces(k) ==
           IF k <= Len(s) /\ CharAt(s, k) = " " THEN SkipSpaces(k + 1) ELSE k
         k == SkipSpaces(AfterPlus(DigitRunEnd(s, i) + 1))
     IN  /\ k + Len("year") - 1 <= Len(s)
         /\ SubSeq(s, k, k + Len("year") - 1) = "year"

HasYearsPattern(s) == \E i \in 1..Len(s) : YearsMatchAt(s, i)

\* int(match.group(1)) of the leftmost match
YearsOf(s) ==
  LET i == CHOOSE j \in 1..Len(s) :
             YearsMatchAt(s, j) /\ \A h \in 1..(j - 1) : ~YearsMatchAt(s, h)
  IN  ParseInt(SubSeq(s, i, DigitRunEnd(s, i)))

\* the loop of _compare_experience: the largest N over the must-haves
RECURSIVE MaxYears(_)
MaxYears(must_have) ==
  IF must_have = <<>> THEN 0
  ELSE LET rest == MaxYears(Tail(must_have))
           s == Lower(Head(must_have))
       IN  IF HasYearsPattern(s) /\ YearsOf(s) > rest THEN YearsOf(s) ELSE rest

\* _compare_experience if a CV without years_experience_total counted as one year
compare_experience_counting_a_year(cv_data, job_data) ==
  LET cv_years == Get(cv_data, "years_experience_total", 1)
      job_years == MaxYears(Get(job_data, "must_have", <<>>))
  IN  IF job_years = 0
      THEN [requirement |-> "No experience requirement", status |-> "MET",
            evidence |-> "N/A",
            cv_years |-> cv_years, required_years |-> 0]
      ELSE [requirement |-> Str(job_years) \o "+ years experience",
            status |-> IF cv_years >= job_years THEN "MET" ELSE "NOT_MET",
            evidence |-> "CV: " \o Str(cv_years) \o " years, Required: "
                           \o Str(job_years) \o " years",
            cv_years |-> cv_years, required_years |-> job_years]

compare_experience(cv_data, job_data) ==
  LET cv_years == Get(cv_data, "years_experience_total", 0)
      job_years == MaxYears(Get(job_data, "must_have", <<>>))
  IN  IF job_years = 0
      THEN [requirement |-> "No experience requirement", status |-> "MET",
            evidence |-> "N/A",
            cv_years |-> cv_years, required_years |-> 0]
      ELSE [requirement |-> Str(job_years) \o "+ years experience",
            status |-> IF cv_years >= job_years THEN "MET" ELSE "NOT_MET",
            evidence |-> "CV: " \o Str(cv_years) \o " years, Required: "
                           \o Str(job_years) \o " years",
            cv_years |-> cv_years, required_years |-> job_years]

DegreeKeywords ==
  {"bachelor", "b.sc", "b.s.", "bsc", "ba ", "b.a.", "b.tech",
   "master", "m.sc", "m.s.", "msc", "ma ", "m.a.",
   "phd", "ph.d.", "doctorate"}

EquivalentKeywords ==
  {"associate", "a.s.", "a.a.", "diploma", "certificate", "bootcamp",
   "coding bootcamp", "professional certificate", "technical degree"}

has_formal_degree(education) ==
  \E i \in 1..Len(education) :
    ContainsAny(Lower(Get(education[i], "degree", "")), DegreeKeywords)

has_equivalent_education(education) ==
  \E i \in 1..Len(education) :
    ContainsAny(Lower(Get(education[i], "degree", "")) \o " "
                \o Lower(Get(education[i], "institution", "")) \o " "
                \o Lower(Get(education[i], "field", "")),
                EquivalentKeywords)

\* the test that makes a must-have the degree requirement in _compare_education
IsDegreeRequirement(req) ==
  ContainsAny(Lower(req), {"degree", "bachelor", "master", "phd"})

\* the verdict once has_degree and has_equivalent_education are known
education_verdict(req, has_degree, has_equivalent, or_equivalent) ==
  [requirement |-> req,
   status |-> IF has_degree \/ (has_equivalent /\ or_equivalent)
              THEN "MET" ELSE "NOT_MET",
   evidence |-> IF has_degree THEN "Has formal degree (Bachelor's or higher)"
                ELSE IF has_equivalent /\ or_equivalent
                THEN "Has equivalent educational qualification (e.g., Associates, technical degree, bootcamp)"
                ELSE IF or_equivalent
                THEN "No formal degree or equivalent educational qualification"
                ELSE "No formal degree (strict Bachelor's requirement, no equivalents allowed)",
   has_formal_degree |-> has_degree,
   has_equivalent_education |-> has_equivalent,
   or_equivalent_allowed |-> or_equivalent]

compare_education(cv_data, job_data) ==
  LET must_have == Get(job_data, "must_have", <<>>)
      education == Get(cv_data, "education", <<>>)
  IN  IF \E i \in 1..Len(must_have) : IsDegreeRequirement(must_have[i])
      THEN LET first == CHOOSE i \in 1..Len(must_have) :
                          /\ IsDegreeRequirement(must_have[i])
                          /\ \A h \in 1..(i - 1) : ~IsDegreeRequirement(must_have[h])
               req == must_have[first]
           IN  education_verdict(req,
                                 has_formal_degree(education),
                                 has_equivalent_education(education),
                                 Contains(Lower(req), "or equivalent"))
      ELSE [requirement |-> "No degree required", status |-> "MET",
            evidence |-> "N/A", has_formal_degree |-> FALSE,
            or_equivalent_allowed |-> FALSE]

ManagementKeywords == {"lead", "manage", "mentor", "supervised", "directed", "team of"}

compare_management(cv_data, job_data) ==
  LET mgmt_req == Get(job_data, "management", [x \in {} |-> FALSE])
      signals == Get(cv_data, "seniority_signals", <<>>)
      has_mgmt == \E i \in 1..Len(signals) :
                    ContainsAny(Lower(signals[i]), ManagementKeywords)
  IN  IF ~Get(mgmt_req, "required", FALSE)
      THEN [requirement |-> "No management required", status |-> "MET",
            evidence |-> "N/A"]
      ELSE [requirement |->
              IF Get(mgmt_req, "team_size", 0) # 0
              THEN "Management experience (team of "
                     \o Str(mgmt_req.team_size) \o ")"
              ELSE "Management experience",
            status |-> IF has_mgmt THEN "MET" ELSE "NOT_MET",
            evidence |->
              IF ~has_mgmt THEN "No management or leadership signals found"
              ELSE IF \E i \in 1..Len(signals) : Contains(Lower(signals[i]), "team of")
              THEN "Has management experience: "
                     \o signals[CHOOSE i \in 1..Len(signals) :
                           /\ Contains(Lower(signals[i]), "team of")
                           /\ \A h \in 1..(i - 1) :
                                ~Contains(Lower(signals[h]), "team of")]
              ELSE "Has leadership/management experience"]

compare_requirements(cv_norm, job_norm) ==
  LET cv_all_tech == get_all_cv_tech(cv_norm)
      must == match_requirements(Get(job_norm, "must_have", <<>>),
                                 cv_all_tech, "must_have")
      nice == match_requirements(Get(job_norm, "nice_to_have", <<>>),
                                 cv_all_tech, "nice_to_have")
  IN  [matched_must_have |-> must.matched,
       missing_must_have |-> must.missing,
       matched_nice_have |-> nice.matched,
       missing_nice_have |-> nice.missing,
       experience_match |-> compare_experience(cv_norm, job_norm),
       education_match |-> compare_education(cv_norm, job_norm),
       management_match |-> compare_management(cv_norm, job_norm)]

-----------------------------------------------------------------------------
(* BaseScorer                                                              *)

\* (matched / total * 100) if total > 0 else 100
SubScore(matched, total) ==
  IF total > 0 THEN FMul(FDivInt(FInt(matched), total), FInt(100))
  ELSE FInt(100)

\* must * 0.8 + nice * 0.2
Weighted(must, nice) ==
  FAdd(FMul(must, FDecimal(8, 10)), FMul(nice, FDecimal(2, 10)))

calculate_skills_score(comp) ==
  LET total_must == Len(comp.matched_must_have) + Len(comp.missing_must_have)
      matched_must == Len(comp.matched_must_have)
      total_nice == Len(comp.matched_nice_have) + Len(comp.missing_nice_have)
      matched_nice == Len(comp.matched_nice_have)
  IN  FTrunc(Weighted(SubScore(matched_must, total_must),
                      SubScore(matched_nice, total_nice)))

\* the tiers if a CV had to exceed each threshold
ExperienceTier_exceeding(cv_years, job_years) ==
  IF job_years = 0
  THEN IF cv_years > 10 THEN 100
       ELSE IF cv_years > 5 THEN 90
       ELSE IF cv_years > 2 THEN 70
       ELSE 50
  ELSE IF 2 * cv_years > 3 * job_years THEN 100
       ELSE IF cv_years > job_years THEN 90
       ELSE IF 4 * cv_years > 3 * job_years THEN 70
       ELSE IF 2 * cv_years > job_years THEN 50
       ELSE 30

\* the tier of the years comparison, before the seniority bonus
\* (cv_years >= job_years * 1.5 is 2 * cv_years >= 3 * job_years, and so on:
\* 1.5, 0.75 and 0.5 and their products with an int are exact floats)
ExperienceTier(cv_years, job_years) ==
  IF job_years = 0
  THEN IF cv_years >= 10 THEN 100
       ELSE IF cv_years >= 5 THEN 90
       ELSE IF cv_years >= 2 THEN 70
       ELSE 50
  ELSE IF 2 * cv_years >= 3 * job_years THEN 100
       ELSE IF cv_years >= job_years THEN 90
       ELSE IF 4 * cv_years >= 3 * job_years THEN 70
       ELSE IF 2 * cv_years >= job_years THEN 50
       ELSE 30

calculate_experience_score(comp, cv_data, job_data) ==
  LET experience_match == comp.experience_match
      score == ExperienceTier(experience_match.cv_years,
                              experience_match.required_years)
      job_level == Lower(Get(job_data, "role_level", ""))
      signals == Get(cv_data, "seniority_signals", <<>>)
      has_senior == \E i \in 1..Len(signals) :
                      ContainsAny(Lower(signals[i]), {"senior", "lead"})
  IN  IF ContainsAny(job_level, {"senior", "lead"}) /\ has_senior
      THEN Min(100, score + 10)
      ELSE score

\* _calculate_qualifications_score with no partial credit for an unmet
\* education requirement
calculate_qualifications_score_no_credit(comp) ==
  IF comp.education_match.status = "MET" THEN 100 ELSE 0

calculate_qualifications_score(comp) ==
  IF comp.education_match.status = "MET" THEN 100 ELSE 60

calculate_base_scores(comp, cv_data, job_data) ==
  [skills_score |-> calculate_skills_score(comp),
   experience_score |-> calculate_experience_score(comp, cv_data, job_data),
   qualifications_score |-> calculate_qualifications_score(comp),
   breakdown |->
     [matched_must_count |-> Len(comp.matched_must_have),
      total_must_count |-> Len(comp.matched_must_have) + Len(comp.missing_must_have),
      matched_nice_count |-> Len(comp.matched_nice_have),
      total_nice_count |-> Len(comp.matched_nice_have) + Len(comp.missing_nice_have)]]

-----------------------------------------------------------------------------
(* FinalScorer                                                             *)

\* An assessment's transferability_score is [num |-> TRUE, tenths |-> n] for
\* the number n / 10 and [num |-> FALSE, tenths |-> 0] for a JSON value that
\* is no number (a string, null).
Score(n) == [num |-> TRUE, tenths |-> n]
NotANumber == [num |-> FALSE, tenths |-> 0]

\* the assessments the loop of lines 95-97 adds up
Credited(assessments, comp) ==
  LET missing_must_reqs == {comp.missing_must_have[i].requirement :
                              i \in 1..Len(comp.missing_must_have)}
  IN  FilterSeq(LAMBDA a : a.requirement \in missing_must_reqs, assessments)

\* the float of a JSON number with one decimal
ScoreValue(score) == FDecimal(score.tenths, 10)

\* transferable_credit after the first k assessments:
\* 0.0, then += assessment["transferability_score"] in the order of the list
RECURSIVE transferable_credit(_, _)
transferable_credit(assessments, k) ==
  IF k = 0 THEN FZero
  ELSE FAdd(transferable_credit(assessments, k - 1),
            ScoreValue(assessments[k].transferability_score))

\* transferable_credit += assessment["transferability_score"] raises TypeError
\* on a score that is no number
FinalScorerRaises(base, transfer, comp) ==
  /\ base.breakdown.total_must_count > 0
  /\ \E i \in 1..Len(Credited(transfer.assessments, comp)) :
       ~Credited(transfer.assessments, comp)[i].transferability_score.num

calculate_skills_with_transferability(base, transfer, comp) ==
  LET total_must == base.breakdown.total_must_count
      exact_must == base.breakdown.matched_must_count
      credited == Credited(transfer.assessments, comp)
      credit == transferable_credit(credited, Len(credited))
      total_nice == base.breakdown.total_nice_count
      exact_nice == base.breakdown.matched_nice_count
      nice_score == SubScore(exact_nice, total_nice)
      must_score_with_transfer ==
        FMul(FDivInt(FAdd(FInt(exact_must), credit), total_must), FInt(100))
  IN  IF total_must = 0 THEN 100
      ELSE Min(100, FTrunc(Weighted(must_score_with_transfer, nice_score)))

\* the overall score if the qualifications had no weight
Overall_without_qualifications(skills, experience, qualifications) ==
  FTrunc(FAdd(FMul(FInt(skills), FDecimal(5, 10)),
              FMul(FInt(experience), FDecimal(35, 100))))

\* int(skills * 0.5 + experience * 0.35 + qualifications * 0.15)
Overall(skills, experience, qualifications) ==
  FTrunc(FAdd(FAdd(FMul(FInt(skills), FDecimal(5, 10)),
                   FMul(FInt(experience), FDecimal(35, 100))),
              FMul(FInt(qualifications), FDecimal(15, 100))))

\* calls made so far on the comparison at hand, after the first
Runs == IF result = <<>> THEN 0 ELSE result.runs

\* calculate_final_scores if FinalScorer kept count of its calls and let it
\* into the skills score
calculate_final_scores_counting_calls(base, transfer, comp) ==
  LET skills == calculate_skills_with_transferability(base, transfer, comp) + Runs
  IN  [overall_score |-> Overall(skills, base.experience_score,
                                 base.qualifications_score),
       skills_score |-> skills,
       experience_score |-> base.experience_score,
       qualifications_score |-> base.qualifications_score,
       base_skills_score |-> base.skills_score,
       transferability_details |-> transfer.assessments]

calculate_final_scores(base, transfer, comp) ==
  LET skills == calculate_skills_with_transferability(base, transfer, comp)
  IN  [overall_score |-> Overall(skills, base.experience_score,
                                 base.qualifications_score),
       skills_score |-> skills,
       experience_score |-> base.experience_score,
       qualifications_score |-> base.qualifications_score,
       base_skills_score |-> base.skills_score,
       transferability_details |-> transfer.assessments]

-----------------------------------------------------------------------------
(* TransferabilityAssessor                                                 *)

\* ", ".join(cv_domain) raises TypeError on an item that is no string.  An
\* item of domain_expertise is [str |-> TRUE, value |-> s] for the string s
\* and [str |-> FALSE, value |-> ""] for any other JSON value.
PromptRaises(cv_domain) == \E i \in 1..Len(cv_domain) : ~cv_domain[i].str

\* What the rating capability can answer for one requirement:
\*   raise       the call throws (API error, rate limit, timeout, no content)
\*   bad_json    the content is no JSON (json.loads throws)
\*   not_object  the content is JSON but no object (the field checks throw)
\*   object      a JSON object, json holding the fields it has
FallbackAssessment(missing_req, reasoning) ==
  [requirement |-> missing_req, transferability_score |-> Score(0),
   reasoning |-> reasoning, ramp_up_time |-> "Unknown"]

\* lines 147-157: the fields an object lacks are filled in, the others kept
assess_single_requirement(missing_req, response) ==
  IF response.kind = "object"
  THEN [requirement |-> Get(response.json, "requirement", missing_req),
        transferability_score |->
          Get(response.json, "transferability_score", Score(0)),
        reasoning |-> Get(response.json, "reasoning", "No reasoning provided"),
        ramp_up_time |-> Get(response.json, "ramp_up_time", "Unknown")]
  ELSE FallbackAssessment(missing_req, "Error: " \o response.kind)

\* the loop after asyncio.gather(..., return_exceptions=True): a task that
\* ended in an exception gets the fallback, in the task's position
join_assessments(task_list, missing_requirements) ==
  [assessments |->
     [i \in 1..Len(task_list) |->
        IF task_list[i].state = "exception"
        THEN FallbackAssessment(missing_requirements[i].requirement,
                                "Assessment failed: " \o task_list[i].error)
        ELSE task_list[i].assessment]]

\* the branch for self.client = None
no_client_assessments(missing_requirements) ==
  [assessments |->
     [i \in 1..Len(missing_requirements) |->
        FallbackAssessment(missing_requirements[i].requirement, "AI not configured")]]

-----------------------------------------------------------------------------
(* ExplanationGenerator                                                    *)

\* seq[:n]
Take(seq, n) == SubSeq(seq, 1, Min(n, Len(seq)))

generate_fallback_explanation(comp) ==
  LET matched == MapSeq(LAMBDA r : r.requirement, comp.matched_must_have)
      missing == MapSeq(LAMBDA r : r.requirement, comp.missing_must_have)
  IN  [strengths |-> IF matched # <<>>
                     THEN MapSeq(LAMBDA req : "Meets requirement: " \o req,
                                 Take(matched, 3))
                     ELSE <<"Unable to determine strengths">>,
       gaps |-> IF missing # <<>>
                THEN MapSeq(LAMBDA req : "Missing requirement: " \o req,
                            Take(missing, 3))
                ELSE <<"No critical gaps identified">>,
       recommendations |-> <<"Review job requirements carefully",
                             "Ensure CV highlights relevant experience",
                             "Consider adding certifications if applicable">>]

\* the try block of generate_explanation, once the capability has answered
explanation_of(response, comp) ==
  IF response.kind = "object"
  THEN [strengths |-> Take(Get(response.json, "strengths", <<>>), 5),
        gaps |-> Take(Get(response.json, "gaps", <<>>), 5),
        recommendations |-> Take(Get(response.json, "recommendations", <<>>), 5)]
  ELSE generate_fallback_explanation(comp)

\* _build_explanation_prompt runs before the try block;
\* a.get("transferability_score", 0) >= 0.5 raises TypeError on a score that
\* is no number
ExplanationPromptRaises(transfer) ==
  \E i \in 1..Len(transfer.assessments) :
    ~transfer.assessments[i].transferability_score.num

-----------------------------------------------------------------------------
(* CVMatcherServiceV4                                                      *)

build_final_result(final, comp, transfer, explanation) ==
  [overall_score |-> final.overall_score,
   skills_score |-> final.skills_score,
   experience_score |-> final.experience_score,
   qualifications_score |-> final.qualifications_score,
   matched_skills |-> MapSeq(LAMBDA r : r.requirement, comp.matched_must_have),
   missing_skills |-> MapSeq(LAMBDA r : r.requirement, comp.missing_must_have),
   strengths |-> explanation.strengths,
   gaps |-> explanation.gaps,
   recommendations |-> explanation.recommendations,
   transferability_details |-> transfer.assessments,
   scoring_method |-> "v4.0 (base + transferability)"]

generate_fallback_result ==
  [overall_score |-> 0, skills_score |-> 0, experience_score |-> 0,
   qualifications_score |-> 0, matched_skills |-> <<>>, missing_skills |-> <<>>,
   strengths |-> <<>>,
   gaps |-> <<"Unable to analyze match - missing job requirements">>,
   recommendations |-> <<"Ensure job has requirements_matrix populated">>,
   transferability_details |-> <<>>,
   scoring_method |-> "v4.0 (fallback)"]

-----------------------------------------------------------------------------
(* Inputs                                                                  *)

MaxMust == 2      \* longest must_have list of a job in the pipeline runs
MaxNice == 1      \* longest nice_to_have list of a job
MaxReqs == 3      \* longest must_have list of a compared job

\* all sequences over S of length at most n
RECURSIVE SeqsUpTo(_, _)
SeqsUpTo(S, n) ==
  IF n = 0 THEN {<<>>}
  ELSE LET shorter == SeqsUpTo(S, n - 1)
       IN  shorter \cup {Append(q, x) : q \in shorter, x \in S}

\* the requirement strings the compared jobs draw their must-haves from
MustTemplate ==
  <<"3+ years Python", "AWS knowledge", "Bachelor's degree",
    "Bachelor's degree or equivalent", "PhD in physics",
    "5+ years backend experience", "Kubernetes", "Team leadership">>

\* the lists of at most n items of seq, in the order of seq
SubListsUpTo(seq, n) ==
  LET RECURSIVE SelectFrom(_, _)
      SelectFrom(S, i) ==
        IF i > Len(seq) THEN <<>>
        ELSE (IF i \in S THEN <<seq[i]>> ELSE <<>>) \o SelectFrom(S, i + 1)
  IN  {SelectFrom(S, 1) : S \in {T \in SUBSET (1..Len(seq)) : Cardinality(T) <= n}}

EducationPool ==
  {<<>>,
   <<[degree |-> "Coding Bootcamp", institution |-> "Le Wagon", field |-> "Web"]>>,
   <<[degree |-> "Diploma in IT", institution |-> "City College", field |-> "IT"]>>,
   <<[degree |-> "BSc", institution |-> "MIT", field |-> "Computer Science"]>>}

YearsPool == {0, 10, 15}

CompareCVs ==
  {[skills |-> <<"python", "aws">>, education |-> e,
    years_experience_total |-> y, seniority_signals |-> <<>>] :
     e \in EducationPool, y \in YearsPool}

CompareJobs ==
  {[must_have |-> m, nice_to_have |-> n] :
     m \in SubListsUpTo(MustTemplate, MaxReqs), n \in SeqsUpTo({"Docker"}, MaxNice)}

-----------------------------------------------------------------------------
(* The rule steps of analyze_match, one call at a time                     *)

NotYet == <<>>

InitCompare ==
  /\ pc = "normalize"
  /\ extractor_client = TRUE
  /\ assessor_client = TRUE
  /\ cv_extracted \in CompareCVs
  /\ job_requirements \in CompareJobs
  /\ cv_normalized = NotYet
  /\ job_normalized = NotYet
  /\ comparison = NotYet
  /\ base_scores = NotYet
  /\ tasks = <<>>
  /\ transferability = NotYet
  /\ scores = NotYet
  /\ result = NotYet
  /\ prev_skills = NotYet
  /\ db = NotYet
  /\ request = NotYet

\* Step 3: normalize_cv_data, normalize_job_data (requirement lists are
\* replaced in the copy of job_data, so job_requirements stays as it is)
NormalizeStep ==
  /\ pc = "normalize"
  /\ cv_normalized' = normalize_cv_data(cv_extracted)
  /\ cv_extracted' = cv_data_after_normalize(cv_extracted)
  /\ job_normalized' = normalize_job_data(job_requirements)
  /\ pc' = "compare"
  /\ UNCHANGED <<db, request, extractor_client, assessor_client, job_requirements,
                 comparison, base_scores, tasks, transferability, scores, result,
                 prev_skills>>

\* Step 4: compare_requirements
CompareStep ==
  /\ pc = "compare"
  /\ comparison' = compare_requirements(cv_normalized, job_normalized)
  /\ pc' = "base"
  /\ UNCHANGED <<db, request, extractor_client, assessor_client, cv_extracted, job_requirements,
                 cv_normalized, job_normalized, base_scores, tasks, transferability,
                 scores, result, prev_skills>>

\* Step 5A: calculate_base_scores
BaseScoreStep ==
  /\ pc = "base"
  /\ base_scores' = calculate_base_scores(comparison, cv_normalized, job_normalized)
  /\ pc' = "based"
  /\ UNCHANGED <<db, request, extractor_client, assessor_client, cv_extracted, job_requirements,
                 cv_normalized, job_normalized, comparison, tasks, transferability,
                 scores, result, prev_skills>>

NextCompare == NormalizeStep \/ CompareStep \/ BaseScoreStep

SpecCompare == InitCompare /\ [][NextCompare]_vars

-----------------------------------------------------------------------------
(* The same rule steps on jobs of few requirements in many wordings        *)

MaxWording == 2   \* longest must_have list of a job of this kind

WordingTemplate ==
  <<"React", "Node.js", "Amazon Web Services", "Kubernetes",
    "5+ years Python experience", "AWS Certified Developer",
    "3 years Python, 5 years Java", "2+ years Go",
    "Bachelor's degree", "Bachelor's degree or equivalent">>

\* the management entry of a requirements matrix; <<>> for a job without one
ManagementPool == {<<>>, [required |-> TRUE], [required |-> TRUE, team_size |-> 5]}

WordingJobs ==
  {IF mgmt = <<>> THEN [must_have |-> m, nice_to_have |-> <<>>]
   ELSE [must_have |-> m, nice_to_have |-> <<>>, management |-> mgmt] :
     m \in SubListsUpTo(WordingTemplate, MaxWording), mgmt \in ManagementPool}

SignalsPool ==
  {<<"Led a team of 5">>, <<"Tech Lead">>, <<"Supervises interns">>,
   <<"Director of Engineering">>, <<"Senior Engineer">>}

\* one CV, and the CVs that differ from it in one field
WordingCVs ==
  LET cv == [skills |-> <<"React.js", "AWS", "Node">>, education |-> <<>>,
             years_experience_total |-> 4, seniority_signals |-> <<>>]
  IN  {cv, [cv EXCEPT !.skills = <<"java">>]}
      \cup {[cv EXCEPT !.education = e] : e \in EducationPool}
      \cup {[cv EXCEPT !.years_experience_total = y] : y \in YearsPool}
      \cup {[cv EXCEPT !.seniority_signals = s] : s \in SignalsPool}

InitWording ==
  /\ pc = "normalize"
  /\ extractor_client = TRUE
  /\ assessor_client = TRUE
  /\ cv_extracted \in WordingCVs
  /\ job_requirements \in WordingJobs
  /\ cv_normalized = NotYet
  /\ job_normalized = NotYet
  /\ comparison = NotYet
  /\ base_scores = NotYet
  /\ tasks = <<>>
  /\ transferability = NotYet
  /\ scores = NotYet
  /\ result = NotYet
  /\ prev_skills = NotYet
  /\ db = NotYet
  /\ request = NotYet

SpecWording == InitWording /\ [][NextCompare]_vars

-----------------------------------------------------------------------------
(* analyze_match: the pipeline, with its three external capabilities       *)

PipelineJobs ==
  {<<>>}      \* a job without requirements_matrix ({} after .get)
  \cup {[must_have |-> m, nice_to_have |-> n] :
          m \in SeqsUpTo({"Kubernetes", "AWS knowledge"}, MaxMust),
          n \in SeqsUpTo({"Docker", "Redis"}, MaxNice)}

\* what the extraction capability can return as CVFacts
PipelineCVs ==
  {[skills |-> <<"Python", "AWS", "docker">>, education |-> <<>>,
    years_experience_total |-> 10, seniority_signals |-> <<"Senior Engineer">>,
    domain_expertise |-> <<[str |-> TRUE, value |-> "fintech"]>>],
   [skills |-> <<"java">>, education |-> <<>>,
    years_experience_total |-> 1, seniority_signals |-> <<>>],
   [skills |-> <<"java">>, education |-> <<>>,
    years_experience_total |-> 1, seniority_signals |-> <<>>,
    domain_expertise |-> <<[str |-> FALSE, value |-> ""]>>]}

\* what the rating capability can answer for the requirement missing_req
RatingResponses(missing_req) ==
  {[kind |-> "raise"], [kind |-> "bad_json"], [kind |-> "not_object"],
   [kind |-> "object",
    json |-> [requirement |-> missing_req, transferability_score |-> Score(7),
              reasoning |-> "Adjacent framework", ramp_up_time |-> "2-4 weeks"]],
   [kind |-> "object", json |-> <<>>],
   [kind |-> "object", json |-> [reasoning |-> ""]],
   [kind |-> "object",
    json |-> [requirement |-> missing_req, transferability_score |-> Score(15),
              reasoning |-> "Exact match plus senior bonus"]],
   [kind |-> "object",
    json |-> [requirement |-> missing_req, transferability_score |-> Score(-10),
              reasoning |-> "Unrelated"]],
   [kind |-> "object",
    json |-> [requirement |-> missing_req, transferability_score |-> NotANumber,
              reasoning |-> "High"]],
   [kind |-> "object",
    json |-> [requirement |-> "Requirement: " \o missing_req,
              transferability_score |-> Score(10), reasoning |-> "Same skill"]],
   [kind |-> "object",
    json |-> [requirement |-> "Requirement: " \o missing_req,
              transferability_score |-> NotANumber, reasoning |-> "High"]]}

\* what the explanation capability can answer
ExplanationResponses ==
  {[kind |-> "raise"], [kind |-> "bad_json"],
   [kind |-> "object",
    json |-> [strengths |-> <<"10 years of Python">>, gaps |-> <<>>,
              recommendations |-> <<"Add certifications">>]],
   [kind |-> "object",
    json |-> [gaps |-> <<"g1", "g2", "g3", "g4", "g5", "g6">>]]}

Init ==
  /\ pc = "extract"
  /\ extractor_client \in BOOLEAN
  /\ assessor_client \in BOOLEAN
  /\ job_requirements \in PipelineJobs
  /\ cv_extracted = NotYet
  /\ cv_normalized = NotYet
  /\ job_normalized = NotYet
  /\ comparison = NotYet
  /\ base_scores = NotYet
  /\ tasks = <<>>
  /\ transferability = NotYet
  /\ scores = NotYet
  /\ result = NotYet
  /\ prev_skills = NotYet
  /\ db = NotYet
  /\ request = NotYet

\* extract_cv_facts raises (no client, API error, no JSON): analyze_match
\* logs the exception and raises it again
ExtractRaises ==
  /\ pc = "extract"
  /\ pc' = "raised"
  /\ UNCHANGED <<db, request, extractor_client, assessor_client, cv_extracted, job_requirements,
                 cv_normalized, job_normalized, comparison, base_scores, tasks,
                 transferability, scores, result, prev_skills>>

\* steps 5C and the start of step 6, run once the assessments are in:
\* calculate_final_scores, then the prompt of generate_explanation
FinalScoring(base, transfer, comp) ==
  /\ pc' = IF FinalScorerRaises(base, transfer, comp) \/ ExplanationPromptRaises(transfer)
           THEN "raised" ELSE "explain"
  /\ scores' = IF FinalScorerRaises(base, transfer, comp) THEN scores
               ELSE calculate_final_scores(base, transfer, comp)

\* extraction returned and the job has no requirements_matrix
ExtractNoRequirements ==
  /\ pc = "extract"
  /\ extractor_client
  /\ job_requirements = <<>>
  /\ \E facts \in PipelineCVs : cv_extracted' = facts
  /\ result' = generate_fallback_result
  /\ pc' = "returned"
  /\ UNCHANGED <<db, request, extractor_client, assessor_client, job_requirements,
                 cv_normalized, job_normalized, comparison, base_scores, tasks,
                 transferability, scores, prev_skills>>

\* extraction returned: steps 2 to 5A, then assess_missing_skills up to its
\* first await or its return (the facts of PipelineCVs have no experience or
\* projects entries, so normalize_cv_data leaves cv_extracted as it is)
ExtractReturns ==
  /\ pc = "extract"
  /\ extractor_client
  /\ job_requirements # <<>>
  /\ cv_extracted' \in PipelineCVs
  /\ cv_normalized' = normalize_cv_data(cv_extracted')
  /\ job_normalized' = normalize_job_data(job_requirements)
  /\ comparison' = compare_requirements(cv_normalized', job_normalized')
  /\ base_scores' = calculate_base_scores(comparison', cv_normalized', job_normalized')
  /\ IF ~assessor_client
     THEN /\ transferability' = no_client_assessments(comparison'.missing_must_have)
          /\ tasks' = <<>>
          /\ FinalScoring(base_scores', transferability', comparison')
     ELSE IF comparison'.missing_must_have = <<>>
     THEN /\ transferability' = [assessments |-> <<>>]
          /\ tasks' = <<>>
          /\ FinalScoring(base_scores', transferability', comparison')
     ELSE /\ tasks' = [i \in 1..Len(comparison'.missing_must_have) |->
                         IF PromptRaises(Get(cv_normalized', "domain_expertise", <<>>))
                         THEN [state |-> "exception", error |-> "TypeError"]
                         ELSE [state |-> "pending"]]
          /\ pc' = "rating"
          /\ UNCHANGED <<transferability, scores>>
  /\ UNCHANGED <<db, request, extractor_client, assessor_client, job_requirements, result,
                 prev_skills>>

\* the rating capability answers task i (in any order among the tasks)
RatingResponds ==
  /\ pc = "rating"
  /\ \E i \in 1..Len(tasks) :
       /\ tasks[i].state = "pending"
       /\ \E response \in RatingResponses(comparison.missing_must_have[i].requirement) :
            tasks' = [tasks EXCEPT ![i] =
                        [state |-> "done", response |-> response,
                         assessment |-> assess_single_requirement(
                            comparison.missing_must_have[i].requirement, response)]]
  /\ UNCHANGED <<pc, db, request, extractor_client, assessor_client, cv_extracted,
                 job_requirements, cv_normalized, job_normalized, comparison,
                 base_scores, transferability, scores, result, prev_skills>>

\* asyncio.gather returns once every task has ended
RatingJoins ==
  /\ pc = "rating"
  /\ \A i \in 1..Len(tasks) : tasks[i].state # "pending"
  /\ transferability' = join_assessments(tasks, comparison.missing_must_have)
  /\ FinalScoring(base_scores, transferability', comparison)
  /\ UNCHANGED <<db, request, extractor_client, assessor_client, cv_extracted, job_requirements,
                 cv_normalized, job_normalized, comparison, base_scores, tasks,
                 result, prev_skills>>

\* the explanation capability answers; the result is built and returned
ExplanationResponds ==
  /\ pc = "explain"
  /\ \E response \in ExplanationResponses :
       result' = build_final_result(scores, comparison, transferability,
                                    explanation_of(response, comparison))
  /\ pc' = "returned"
  /\ UNCHANGED <<db, request, extractor_client, assessor_client, cv_extracted, job_requirements,
                 cv_normalized, job_normalized, comparison, base_scores, tasks,
                 transferability, scores, prev_skills>>

Next ==
  \/ ExtractRaises
  \/ ExtractNoRequirements
  \/ ExtractReturns
  \/ RatingResponds
  \/ RatingJoins
  \/ ExplanationResponds

Spec == Init /\ [][Next]_vars

\* extract_cv_facts ends, by returning or by raising, and analyze_match runs
\* on to its next await, its return or its raise
ExtractionEnds ==
  /\ pc = "extract"
  /\ pc' \in {"raised", "returned", "rating", "explain"}

\* every task of asyncio.gather has ended and analyze_match runs on
GatherEnds ==
  /\ pc = "rating"
  /\ \A i \in 1..Len(tasks) : tasks[i].state # "pending"
  /\ pc' \in {"raised", "explain"}

\* analyze_match when every call of a capability ends (it answers, or it
\* throws, as the client does for a request that gets no answer) and the
\* event loop runs what is ready
SpecTimely ==
  /\ Init
  /\ [][Next]_vars
  /\ WF_pc(ExtractionEnds)
  /\ WF_vars(RatingResponds)
  /\ WF_pc(GatherEnds)
  /\ WF_vars(ExplanationResponds)
-----------------------------------------------------------------------------
(* The two scorers on their own: a comparison, its assessments, and the    *)
(* same comparison with one more matched must-have                         *)

MaxBenchReqs == 2   \* most matched and most missing requirements of a kind
MaxAdded == 2       \* most must-haves added to one comparison
MaxRuns == 2        \* most repeated calls of the scorers on one comparison

Matched(req, req_type) ==
  [requirement |-> req, status |-> "EXACT_MATCH", evidence |-> "CV lists: " \o req,
   requirement_type |-> req_type]

Missing(req, req_type) ==
  [requirement |-> req, status |-> "NOT_FOUND", evidence |-> "Not in CV",
   requirement_type |-> req_type]

BenchNames == <<"python", "kubernetes", "terraform", "react", "docker">>

\* n verdicts, named from position `from` of BenchNames on
Some(V(_, _), n, from, req_type) ==
  [i \in 1..n |-> V(BenchNames[from + i - 1], req_type)]

\* every count of matched and missing requirements with one experience and
\* education verdict, and one set of counts with the other verdicts
BenchComparisons ==
  {[matched_must_have |-> Some(Matched, t[1], 1, "must_have"),
    missing_must_have |-> Some(Missing, t[2], 1 + t[1], "must_have"),
    matched_nice_have |-> Some(Matched, t[3], 1, "nice_to_have"),
    missing_nice_have |-> Some(Missing, t[4], 1 + t[3], "nice_to_have"),
    experience_match |-> [requirement |-> "No experience requirement",
                          status |-> "MET", cv_years |-> t[5], required_years |-> 0],
    education_match |->
      IF t[6] = "MET"
      THEN [requirement |-> "No degree required", status |-> "MET",
            evidence |-> "N/A", has_formal_degree |-> FALSE,
            or_equivalent_allowed |-> FALSE]
      ELSE [requirement |-> "bachelor's degree", status |-> "NOT_MET",
            evidence |-> "No formal degree found", has_formal_degree |-> FALSE,
            or_equivalent_allowed |-> FALSE],
    management_match |-> [requirement |-> "No management required",
                          status |-> "MET", evidence |-> "N/A"]] :
     t \in {u \in (0..MaxBenchReqs) \X (0..MaxBenchReqs) \X (0..1)
                    \X (0..MaxBenchReqs) \X {1, 5} \X {"MET", "NOT_MET"} :
              \/ u[5] = 5 /\ u[6] = "MET"
              \/ u[1] = 1 /\ u[2] = 1 /\ u[3] = 0 /\ u[4] = 0}}

\* transferability scores of the scale of the rating prompt, in tenths
BenchScores == {0, 3, 6, 10}

\* one assessment for each missing must-have, or none at all
BenchAssessments(comp) ==
  {[assessments |->
      [i \in 1..Len(comp.missing_must_have) |->
         [requirement |-> comp.missing_must_have[i].requirement,
          transferability_score |-> Score(s[i]),
          reasoning |-> "rated", ramp_up_time |-> "1-2 months"]]] :
     s \in [1..Len(comp.missing_must_have) -> BenchScores]}
    \cup {[assessments |-> <<>>]}

InitScore ==
  /\ pc = "score"
  /\ extractor_client = TRUE
  /\ assessor_client = TRUE
  /\ cv_extracted = NotYet
  /\ job_requirements = NotYet
  /\ cv_normalized = [seniority_signals |-> <<>>]
  /\ job_normalized = [must_have |-> <<>>]
  /\ comparison \in BenchComparisons
  /\ transferability \in BenchAssessments(comparison)
  /\ base_scores = NotYet
  /\ tasks = <<>>
  /\ scores = NotYet
  /\ result = NotYet
  /\ prev_skills = <<>>
  /\ db = NotYet
  /\ request = NotYet

\* BaseScorer, then FinalScorer, on the comparison at hand
RunScorers ==
  /\ pc = "score"
  /\ base_scores' = calculate_base_scores(comparison, cv_normalized, job_normalized)
  /\ scores' = calculate_final_scores(
                  calculate_base_scores(comparison, cv_normalized, job_normalized),
                  transferability, comparison)
  /\ pc' = "scored"
  /\ UNCHANGED <<db, request, extractor_client, assessor_client, cv_extracted, job_requirements,
                 cv_normalized, job_normalized, comparison, tasks, transferability,
                 result, prev_skills>>

\* the comparison gets one more matched must-have, everything else kept; the
\* scores so far are remembered
AddMatchedMustHave ==
  /\ pc = "scored"
  /\ Len(prev_skills) < MaxAdded
  /\ comparison' =
       [comparison EXCEPT !.matched_must_have =
          Append(@, Matched("added " \o Str(Len(prev_skills) + 1), "must_have"))]
  /\ prev_skills' = Append(prev_skills, [base |-> base_scores.skills_score,
                                         final |-> scores.skills_score,
                                         total_must |-> base_scores.breakdown.total_must_count])
  /\ result' = NotYet
  /\ pc' = "score"
  /\ UNCHANGED <<db, request, extractor_client, assessor_client, cv_extracted, job_requirements,
                 cv_normalized, job_normalized, base_scores, tasks, transferability,
                 scores>>

\* the two scorers are called once more on the comparison and the
\* assessments they were called on; what they return now is kept next to
\* what they returned the first time
RunScorersAgain ==
  /\ pc = "scored"
  /\ Runs < MaxRuns
  /\ result' = [runs |-> Runs + 1,
                base_scores |-> calculate_base_scores(comparison, cv_normalized,
                                                      job_normalized),
                scores |-> calculate_final_scores(
                             calculate_base_scores(comparison, cv_normalized,
                                                   job_normalized),
                             transferability, comparison)]
  /\ UNCHANGED <<pc, db, request, extractor_client, assessor_client, cv_extracted,
                 job_requirements, cv_normalized, job_normalized, comparison,
                 base_scores, tasks, transferability, scores, prev_skills>>

NextScore == RunScorers \/ AddMatchedMustHave \/ RunScorersAgain

SpecScore == InitScore /\ [][NextScore]_vars

-----------------------------------------------------------------------------
(* The match cache: POST /matching/analyze against update_job, the CV      *)
(* worker and DELETE /matching/score, for one user, one CV and one job     *)

\* the last day of the clock
MaxDay == 8

\* the most rows cv_job_matches holds for the pair
MaxRows == 2

\* timedelta(days=7)
ExpiryDays == 7

\* what a job's description and a CV's parsed sections can be
JobTexts == {"backend role", "backend role, Kubernetes added"}
CVTexts == {"cv as uploaded", "cv with new project"}

\* cv_matcher_v5.analyze_match(cv_text, job_data): the analysis is computed
\* from the two inputs it was handed
analysis_of(cv_data, job_data) == [cv |-> cv_data, job |-> job_data]

\* .gt('expires_at', datetime.utcnow().isoformat())
FreshRows == {row \in db.cv_job_matches : row.expires_at > db.now}

\* upsert(match_record): a row of the pair is replaced or the record is
\* added as one more row; which depends on the keys of the table
Upserted(rows, match_record) ==
  {{match_record}}
    \cup (IF Cardinality(rows) < MaxRows THEN {rows \cup {match_record}} ELSE {})

InitCache ==
  /\ pc = "cache"
  /\ extractor_client = TRUE
  /\ assessor_client = TRUE
  /\ cv_extracted = NotYet
  /\ job_requirements = NotYet
  /\ cv_normalized = NotYet
  /\ job_normalized = NotYet
  /\ comparison = NotYet
  /\ base_scores = NotYet
  /\ tasks = <<>>
  /\ transferability = NotYet
  /\ scores = NotYet
  /\ result = NotYet
  /\ prev_skills = NotYet
  /\ \E j \in JobTexts, c \in CVTexts :
       db = [now |-> 0, jobs |-> j, cv_sections |-> c, cvs |-> "parsed",
             cv_job_matches |-> {}]
  /\ request = [state |-> "idle"]

Unrelated ==
  UNCHANGED <<pc, extractor_client, assessor_client, cv_extracted, job_requirements,
              cv_normalized, job_normalized, comparison, base_scores, tasks,
              transferability, scores, result, prev_skills>>

\* analyze_match, lines 108-129: a fresh row of the pair is returned as it is
AnalyzeReturnsCached ==
  /\ request.state \in {"idle", "responded"}
  /\ \E match \in FreshRows :
       request' = [state |-> "responded",
                   response |-> [status |-> 200, cached |-> TRUE,
                                 analysis |-> match.analysis]]
  /\ UNCHANGED db
  /\ Unrelated

\* analyze_match, lines 108-236: no fresh row (or the cache check threw),
\* the CV sections and the job are fetched and handed to the matcher
AnalyzeFetches ==
  /\ request.state \in {"idle", "responded"}
  /\ \E cache_check_failed \in BOOLEAN :
       /\ cache_check_failed \/ FreshRows = {}
       /\ request' = [state |-> "analyzing", cv_data |-> db.cv_sections,
                      job_data |-> db.jobs]
  /\ UNCHANGED db
  /\ Unrelated

\* analyze_match, lines 236-288: the matcher answers or raises; the result
\* is stored with its expiry (a failure to store is not fatal) and returned
AnalyzeStores ==
  /\ request.state = "analyzing"
  /\ \E matcher_raises \in BOOLEAN :
       IF matcher_raises
       THEN /\ request' = [state |-> "responded", response |-> [status |-> 500]]
            /\ UNCHANGED db
       ELSE LET analysis == analysis_of(request.cv_data, request.job_data)
                match_record == [analysis |-> analysis,
                                 expires_at |-> db.now + ExpiryDays]
            IN  /\ request' = [state |-> "responded",
                               response |-> [status |-> 200, cached |-> FALSE,
                                             analysis |-> analysis]]
                /\ \/ UNCHANGED db
                   \/ \E rows \in Upserted(db.cv_job_matches, match_record) :
                        db' = [db EXCEPT !.cv_job_matches = rows]
  /\ Unrelated

\* update_job: the row of the job is updated; no other table is written
update_job ==
  /\ \E description \in JobTexts : db' = [db EXCEPT !.jobs = description]
  /\ UNCHANGED request
  /\ Unrelated

\* CVWorker.process_cv_parse_job: status parsing, then the parsed sections
\* replace the stored ones and the status is parsed; on an exception the
\* status is error and the sections stay
process_cv_parse_job ==
  /\ \/ \E parsed_data \in CVTexts :
          db' = [db EXCEPT !.cv_sections = parsed_data, !.cvs = "parsed"]
     \/ db' = [db EXCEPT !.cvs = "error"]
  /\ UNCHANGED request
  /\ Unrelated

\* delete_match_score: the rows of the pair are deleted
delete_match_score ==
  /\ db.cv_job_matches # {}
  /\ db' = [db EXCEPT !.cv_job_matches = {}]
  /\ UNCHANGED request
  /\ Unrelated

\* a day passes
DayPasses ==
  /\ db.now < MaxDay
  /\ db' = [db EXCEPT !.now = db.now + 1]
  /\ UNCHANGED request
  /\ Unrelated

NextCache ==
  \/ AnalyzeReturnsCached
  \/ AnalyzeFetches
  \/ AnalyzeStores
  \/ update_job
  \/ process_cv_parse_job
  \/ delete_match_score
  \/ DayPasses

SpecCache == InitCache /\ [][NextCache]_vars

-----------------------------------------------------------------------------
(* normalize_skill on its own, applied to a token and then to what it      *)
(* returned                                                                *)

MaxApplications == 2   \* most applications of normalize_skill to one token

\* every key and canonical value of the table and some unmapped tokens, each
\* as written, in capitals, and with whitespace around it
SkillTokens ==
  LET UpperChar(c) == IF IndexOf(LowerAlpha, c) > 0
                      THEN CharAt(UpperAlpha, IndexOf(LowerAlpha, c)) ELSE c
      RECURSIVE Upper(_)
      Upper(s) == IF Len(s) = 0 THEN s
                  ELSE IF Len(s) = 1 THEN UpperChar(s)
                  ELSE Upper(SubSeq(s, 1, Len(s) \div 2))
                       \o Upper(SubSeq(s, Len(s) \div 2 + 1, Len(s)))
      written == {SKILL_MAPPINGS[k][i] : k \in 1..Len(SKILL_MAPPINGS), i \in 1..2}
                   \cup {"rust", "cobol", "", " ", "x"}
  IN  UNION {{t, Upper(t), " " \o t \o "  ", "  " \o Upper(t)} : t \in written}

InitNormalize ==
  /\ pc = "normalize_skill"
  /\ request \in {[skill |-> t] : t \in SkillTokens}
  /\ result = <<>>
  /\ extractor_client = TRUE
  /\ assessor_client = TRUE
  /\ cv_extracted = NotYet
  /\ job_requirements = NotYet
  /\ cv_normalized = NotYet
  /\ job_normalized = NotYet
  /\ comparison = NotYet
  /\ base_scores = NotYet
  /\ tasks = <<>>
  /\ transferability = NotYet
  /\ scores = NotYet
  /\ prev_skills = <<>>
  /\ db = NotYet

\* normalize_skill applied to the token, or to what the last application
\* returned
NormalizeSkill ==
  /\ pc = "normalize_skill"
  /\ Len(result) < MaxApplications
  /\ result' = Append(result, normalize_skill(IF result = <<>> THEN request.skill
                                              ELSE result[Len(result)]))
  /\ UNCHANGED <<pc, db, request, extractor_client, assessor_client, cv_extracted,
                 job_requirements, cv_normalized, job_normalized, comparison,
                 base_scores, tasks, transferability, scores, prev_skills>>

SpecNormalize == InitNormalize /\ [][NormalizeSkill]_vars

-----------------------------------------------------------------------------
(* _calculate_experience_score on its own                                  *)

MaxCVYears == 12   \* most years of experience of a CV scored on its own

RequiredYearsPool == {0, 2, 4, 8}

RoleLevelPool == {"Senior", "Team Lead", "Junior", "mid"}

SenioritySignalsPool ==
  {<<>>, <<"Senior Engineer">>, <<"Intern", "Tech Lead">>, <<"Intern">>}

InitExperience ==
  /\ pc = "experience"
  /\ comparison \in {[experience_match |->
                        [status |-> IF y >= r THEN "MET" ELSE "NOT_MET",
                         cv_years |-> y, required_years |-> r]] :
                       y \in 0..MaxCVYears, r \in RequiredYearsPool}
  /\ cv_normalized \in {[seniority_signals |-> s] : s \in SenioritySignalsPool}
  /\ job_normalized \in {[must_have |-> <<>>]}
                          \cup {[must_have |-> <<>>, role_level |-> l] : l \in RoleLevelPool}
  /\ result = NotYet
  /\ extractor_client = TRUE
  /\ assessor_client = TRUE
  /\ cv_extracted = NotYet
  /\ job_requirements = NotYet
  /\ base_scores = NotYet
  /\ tasks = <<>>
  /\ transferability = NotYet
  /\ scores = NotYet
  /\ prev_skills = NotYet
  /\ db = NotYet
  /\ request = NotYet

ExperienceScore ==
  /\ pc = "experience"
  /\ result' = [experience_score |->
                  calculate_experience_score(comparison, cv_normalized, job_normalized)]
  /\ pc' = "scored"
  /\ UNCHANGED <<db, request, extractor_client, assessor_client, cv_extracted,
                 job_requirements, cv_normalized, job_normalized, comparison,
                 base_scores, tasks, transferability, scores, prev_skills>>

SpecExperience == InitExperience /\ [][ExperienceScore]_vars

-----------------------------------------------------------------------------
(* The rule steps on partial data                                          *)

\* CVFacts and JobRequirements with any subset of their fields present
InitPartial ==
  /\ pc = "normalize"
  /\ extractor_client = TRUE
  /\ assessor_client = TRUE
  /\ \E present \in SUBSET {"skills", "education", "seniority_signals",
                            "years_experience_total", "experience", "projects"} :
       cv_extracted =
         [f \in present |->
            [skills |-> <<"Python", "React.js">>,
             education |-> <<[degree |-> "BSc", institution |-> "MIT",
                              field |-> "Computer Science"]>>,
             seniority_signals |-> <<"Tech Lead, team of 5">>,
             years_experience_total |-> 6,
             experience |-> <<[title |-> "Developer",
                               technologies |-> <<"React.js", "AWS">>],
                              [title |-> "Intern"]>>,
             projects |-> <<[name |-> "Shop", technologies |-> <<"Node.js">>]>>][f]]
  /\ \E present \in SUBSET {"must_have", "nice_to_have", "management", "role_level"} :
       job_requirements =
         [f \in present |->
            [must_have |-> <<"3+ years Python", "Bachelor's degree", "Kubernetes">>,
             nice_to_have |-> <<"React">>,
             management |-> [required |-> TRUE, team_size |-> 5],
             role_level |-> "Senior"][f]]
  /\ cv_normalized = NotYet
  /\ job_normalized = NotYet
  /\ comparison = NotYet
  /\ base_scores = NotYet
  /\ tasks = <<>>
  /\ transferability = NotYet
  /\ scores = NotYet
  /\ result = NotYet
  /\ prev_skills = NotYet
  /\ db = NotYet
  /\ request = NotYet

SpecPartial == InitPartial /\ [][NextCompare]_vars
-----------------------------------------------------------------------------
(* require_feature: guarded requests of one user for one feature, served   *)
(* by server processes that share the database                             *)

MaxGuarded == 3   \* most guarded requests of the user in one billing period

\* db is the user's row: the limit of the tier for the feature (-1 for
\* unlimited) and the usage counted so far; request[r] is the position of
\* guarded request r in wrapper
InitUsage ==
  /\ pc = "serving"
  /\ \E limit \in {-1, 0, 1, 2} :
       \E usage \in 0..(IF limit = -1 THEN 2 ELSE limit) :
         db = [limit |-> limit, usage |-> usage]
  /\ request = [r \in 1..MaxGuarded |-> [at |-> "can_use", ran |-> FALSE]]
  /\ result = NotYet
  /\ extractor_client = TRUE
  /\ assessor_client = TRUE
  /\ cv_extracted = NotYet
  /\ job_requirements = NotYet
  /\ cv_normalized = NotYet
  /\ job_normalized = NotYet
  /\ comparison = NotYet
  /\ base_scores = NotYet
  /\ tasks = <<>>
  /\ transferability = NotYet
  /\ scores = NotYet
  /\ prev_skills = NotYet

\* can_use_feature reads the subscription and the usage; when it refuses,
\* wrapper raises the 403
CanUseFeature(r) ==
  /\ request[r].at = "can_use"
  /\ request' = [request EXCEPT ![r].at =
                   IF db.limit = -1 \/ db.usage < db.limit THEN "track" ELSE "denied"]
  /\ UNCHANGED <<pc, db, extractor_client, assessor_client, cv_extracted,
                 job_requirements, cv_normalized, job_normalized, comparison,
                 base_scores, tasks, transferability, scores, result, prev_skills>>

\* track_usage: increment_usage adds 1 in the database, or the call fails
\* and the exception is swallowed
TrackUsage(r) ==
  /\ request[r].at = "track"
  /\ \E ok \in BOOLEAN :
       db' = [db EXCEPT !.usage = IF ok THEN @ + 1 ELSE @]
  /\ request' = [request EXCEPT ![r].at = "run"]
  /\ UNCHANGED <<pc, extractor_client, assessor_client, cv_extracted,
                 job_requirements, cv_normalized, job_normalized, comparison,
                 base_scores, tasks, transferability, scores, result, prev_skills>>

\* the guarded function is called
RunGuarded(r) ==
  /\ request[r].at = "run"
  /\ request' = [request EXCEPT ![r] = [at |-> "done", ran |-> TRUE]]
  /\ UNCHANGED <<pc, db, extractor_client, assessor_client, cv_extracted,
                 job_requirements, cv_normalized, job_normalized, comparison,
                 base_scores, tasks, transferability, scores, result, prev_skills>>

NextUsage ==
  \E r \in 1..MaxGuarded : CanUseFeature(r) \/ TrackUsage(r) \/ RunGuarded(r)

SpecUsage == InitUsage /\ [][NextUsage]_vars
-----------------------------------------------------------------------------
(* reparse_cv and the CV worker on one CV, in one event loop               *)

MaxReparse == 2   \* most re-parse requests for the CV

\* db is the row of the CV in cvs; request holds the position of each
\* re-parse request in reparse_cv, the number of jobs in queue:cv-parse, the
\* position of the worker and the number of jobs it has completed;
\* extractor_client says whether Redis is configured
InitReparse ==
  /\ pc = "serving"
  /\ db \in {[status |-> s] : s \in {"parsed", "error"}}
  /\ extractor_client \in BOOLEAN
  /\ request = [endpoint |-> [r \in 1..MaxReparse |-> "start"],
                queue |-> 0, worker |-> "idle", completed |-> 0]
  /\ result = NotYet
  /\ assessor_client = TRUE
  /\ cv_extracted = NotYet
  /\ job_requirements = NotYet
  /\ cv_normalized = NotYet
  /\ job_normalized = NotYet
  /\ comparison = NotYet
  /\ base_scores = NotYet
  /\ tasks = <<>>
  /\ transferability = NotYet
  /\ scores = NotYet
  /\ prev_skills = NotYet

\* reparse_cv up to its first suspension: the CV is found and enqueue awaits
\* lpush; without Redis enqueue returns at once, and the status is updated
ReparseStarts(r) ==
  /\ request.endpoint[r] = "start"
  /\ IF extractor_client
     THEN /\ request' = [request EXCEPT !.endpoint[r] = "lpush"]
          /\ UNCHANGED db
     ELSE /\ request' = [request EXCEPT !.endpoint[r] = "returned"]
          /\ db' = [status |-> "uploaded"]
  /\ UNCHANGED <<pc, extractor_client, assessor_client, cv_extracted,
                 job_requirements, cv_normalized, job_normalized, comparison,
                 base_scores, tasks, transferability, scores, result, prev_skills>>

\* lpush ends: the job is in the queue and enqueue awaits setex, or lpush
\* failed three times and the exception leaves reparse_cv
LpushEnds(r) ==
  /\ request.endpoint[r] = "lpush"
  /\ \/ request' = [request EXCEPT !.endpoint[r] = "setex", !.queue = @ + 1]
     \/ request' = [request EXCEPT !.endpoint[r] = "raised"]
  /\ UNCHANGED <<pc, db, extractor_client, assessor_client, cv_extracted,
                 job_requirements, cv_normalized, job_normalized, comparison,
                 base_scores, tasks, transferability, scores, result, prev_skills>>

\* setex ends: enqueue returns, reparse_cv sets the status to "uploaded" and
\* returns; or setex failed and the exception leaves reparse_cv
SetexEnds(r) ==
  /\ request.endpoint[r] = "setex"
  /\ \/ /\ request' = [request EXCEPT !.endpoint[r] = "returned"]
        /\ db' = [status |-> "uploaded"]
     \/ /\ request' = [request EXCEPT !.endpoint[r] = "raised"]
        /\ UNCHANGED db
  /\ UNCHANGED <<pc, extractor_client, assessor_client, cv_extracted,
                 job_requirements, cv_normalized, job_normalized, comparison,
                 base_scores, tasks, transferability, scores, result, prev_skills>>

\* brpop hands a job to the worker; process_cv_parse_job sets "parsing" and
\* runs up to the await inside parse_cv_file, or an exception before it (the
\* download failed) ends the job with "error"
WorkerDequeues ==
  /\ request.worker = "idle"
  /\ request.queue > 0
  /\ \/ /\ request' = [request EXCEPT !.queue = @ - 1, !.worker = "parsing"]
        /\ db' = [status |-> "parsing"]
     \/ /\ request' = [request EXCEPT !.queue = @ - 1, !.completed = @ + 1]
        /\ db' = [status |-> "error"]
  /\ UNCHANGED <<pc, extractor_client, assessor_client, cv_extracted,
                 job_requirements, cv_normalized, job_normalized, comparison,
                 base_scores, tasks, transferability, scores, result, prev_skills>>

\* parse_cv_file ends: the sections are saved and the status is "parsed", or
\* an exception ends the job with "error"
WorkerFinishes ==
  /\ request.worker = "parsing"
  /\ request' = [request EXCEPT !.worker = "idle", !.completed = @ + 1]
  /\ \E s \in {"parsed", "error"} : db' = [status |-> s]
  /\ UNCHANGED <<pc, extractor_client, assessor_client, cv_extracted,
                 job_requirements, cv_normalized, job_normalized, comparison,
                 base_scores, tasks, transferability, scores, result, prev_skills>>

NextReparse ==
  \/ \E r \in 1..MaxReparse : ReparseStarts(r) \/ LpushEnds(r) \/ SetexEnds(r)
  \/ WorkerDequeues
  \/ WorkerFinishes

SpecReparse == InitReparse /\ [][NextReparse]_vars
-----------------------------------------------------------------------------
(* Properties of the pipeline                                              *)

InRange(x) == 0 <= x /\ x <= 100

\* C1: every score the pipeline returns (overall, skills, experience,
\* qualifications) lies in [0, 100], whatever the comparison and whatever the
\* rating capability returned.
C1_ScoresInRange ==
  pc = "returned" =>
    /\ InRange(result.overall_score)
    /\ InRange(result.skills_score)
    /\ InRange(result.experience_score)
    /\ InRange(result.qualifications_score)

\* C2: whatever the three external capabilities do, analyze_match returns a
\* result with a defined overall_score: no error of a capability propagates
\* out of the pipeline.
C2_NoErrorPropagates == pc # "raised"

\* a rating answer that failed: the call threw, or the response is malformed
\* (no JSON, no object, or an object without a numeric transferability_score)
RatingFailed(task) ==
  \/ task.state = "exception"
  \/ /\ task.state = "done"
     /\ \/ task.response.kind # "object"
        \/ "transferability_score" \notin DOMAIN task.response.json
        \/ ~Get(task.response.json, "transferability_score", Score(0)).num

FannedOut == tasks # <<>> /\ pc \in {"explain", "returned", "raised"}

\* C3: for N missing must-haves and any subset of the N rating calls that
\* throws or answers with a malformed response, assess_missing_skills returns
\* exactly N assessments in the order of the requirements; each failed one
\* has transferability_score 0.0 and a non-empty reasoning, and each other
\* one is what its own response makes it, whatever the other calls did.
C3_FanOutIsolatesFailures ==
  FannedOut =>
    /\ Len(transferability.assessments) = Len(comparison.missing_must_have)
    /\ \A i \in 1..Len(tasks) :
         IF RatingFailed(tasks[i])
         THEN /\ transferability.assessments[i].requirement
                   = comparison.missing_must_have[i].requirement
              /\ transferability.assessments[i].transferability_score = Score(0)
              /\ transferability.assessments[i].reasoning # ""
         ELSE transferability.assessments[i]
                = assess_single_requirement(
                     comparison.missing_must_have[i].requirement, tasks[i].response)

Assessed == pc \in {"explain", "returned"} /\ job_requirements # <<>>

\* C4: every assessment assess_missing_skills returns has a numeric
\* transferability_score in [0.0, 1.0], for every response of the rating
\* capability.
C4_ScoreInUnitInterval ==
  (Assessed \/ FannedOut) =>
    \A i \in 1..Len(transferability.assessments) :
      /\ transferability.assessments[i].transferability_score.num
      /\ transferability.assessments[i].transferability_score.tenths \in 0..10

\* C5: one more matched must-have, with the missing must-haves, the
\* nice-to-haves and the assessments kept, never lowers skills_score, for
\* BaseScorer and for FinalScorer, also when there was no must-have before.
C5_AddingMatchNeverLowersSkills ==
  (pc = "scored" /\ prev_skills # <<>>) =>
    /\ base_scores.skills_score >= prev_skills[Len(prev_skills)].base
    /\ scores.skills_score >= prev_skills[Len(prev_skills)].final

\* C6: a job whose must_have and nice_to_have are both empty gets
\* skills_score = 100 and gaps = [].
C6_NoRequirementsNoGaps ==
  ( /\ pc = "returned"
    /\ job_requirements # <<>>
    /\ job_requirements.must_have = <<>>
    /\ job_requirements.nice_to_have = <<>> ) =>
      /\ result.skills_score = 100
      /\ result.gaps = <<>>

Compared == pc \in {"base", "based"}

InList(req, verdicts) == \E i \in 1..Len(verdicts) : verdicts[i].requirement = req

\* how often req occurs in a list of verdicts / of requirement strings
Occurrences(req, verdicts) ==
  Cardinality({i \in 1..Len(verdicts) : verdicts[i].requirement = req})

Count(req, requirements) ==
  Cardinality({i \in 1..Len(requirements) : requirements[i] = req})

FeedsSubResult(req) == HasYearsPattern(Lower(req)) \/ IsDegreeRequirement(req)

\* C8: a must-have that feeds the experience, education or management
\* sub-result is in neither of the generic lists matched_must_have and
\* missing_must_have.
C8_NoDoubleCounting ==
  Compared =>
    \A i \in 1..Len(job_normalized.must_have) :
      FeedsSubResult(job_normalized.must_have[i]) =>
        /\ ~InList(job_normalized.must_have[i], comparison.matched_must_have)
        /\ ~InList(job_normalized.must_have[i], comparison.missing_must_have)

StrictDegreeJob(job) ==
  /\ \E i \in 1..Len(job.must_have) : IsDegreeRequirement(job.must_have[i])
  /\ \A i \in 1..Len(job.must_have) :
       IsDegreeRequirement(job.must_have[i])
         => ~Contains(Lower(job.must_have[i]), "or equivalent")

\* the credentials of the CVs that are no Bachelor's-or-higher degree
NonDegreeCredentials == {"Coding Bootcamp", "Diploma in IT"}

HoldsNoDegree(education) ==
  \A i \in 1..Len(education) : education[i].degree \in NonDegreeCredentials

\* C9: with a degree requirement that has no "or equivalent" clause and a CV
\* that holds no degree, education_match.status is NOT_MET for every
\* years_experience_total, and the education verdict is the same for every
\* other number of years.
C9_ExperienceNeverSatisfiesDegree ==
  ( /\ Compared
    /\ StrictDegreeJob(job_normalized)
    /\ HoldsNoDegree(cv_normalized.education) ) =>
      /\ comparison.education_match.status = "NOT_MET"
      /\ \A y \in YearsPool :
           compare_education(
             SetField(cv_normalized, "years_experience_total", y), job_normalized)
             = comparison.education_match

Scenario10 ==
  /\ cv_extracted.skills = <<"python", "aws">>
  /\ cv_extracted.years_experience_total = 10
  /\ cv_extracted.education = <<>>
  /\ job_requirements.must_have
       = <<"3+ years Python", "AWS knowledge", "Bachelor's degree">>

\* C10: years 10, skills python and aws, must-haves "3+ years Python",
\* "AWS knowledge", "Bachelor's degree": experience MET with required_years
\* 3, both skill requirements matched, education NOT_MET,
\* qualifications_score 60.
C10_Scenario ==
  (pc = "based" /\ Scenario10) =>
    /\ comparison.experience_match.status = "MET"
    /\ comparison.experience_match.required_years = 3
    /\ comparison.experience_match.cv_years = 10
    /\ InList(normalize_requirement_string("3+ years Python"),
              comparison.matched_must_have)
    /\ InList(normalize_requirement_string("AWS knowledge"),
              comparison.matched_must_have)
    /\ Len(comparison.matched_must_have) = 2
    /\ comparison.missing_must_have = <<>>
    /\ comparison.education_match.status = "NOT_MET"
    /\ base_scores.qualifications_score = 60

C10_Witness ==
  /\ pc = "based"
  /\ Scenario10
  /\ base_scores.qualifications_score = 60
  /\ Len(comparison.matched_must_have) = 2

\* C11: an analyze request never answers with cached = true and an analysis
\* that was computed from a job or a CV other than the stored ones, i.e.
\* from the inputs as they were before update_job or a re-parse changed them.
C11_CachedResultIsOfCurrentInputs ==
  [][ ( /\ request'.state = "responded"
        /\ request # request'
        /\ request'.response.status = 200
        /\ request'.response.cached )
      => request'.response.analysis = analysis_of(db.cv_sections, db.jobs) ]_vars

C13_NormalizeSkillIsIdempotent ==
  pc = "normalize_skill" =>
    /\ Len(result) = 2 => result[2] = result[1]
    /\ (Len(result) >= 1
          /\ \E k \in 1..Len(SKILL_MAPPINGS) : SKILL_MAPPINGS[k][2] = request.skill)
       => result[1] = request.skill

C13_Witness ==
  /\ pc = "normalize_skill"
  /\ request.skill = "  NODE.JS"
  /\ result = <<"nodejs", "nodejs">>

\* C14: generate_explanation never raises; whatever the text-generation
\* capability does, it returns strengths, gaps and recommendations of at most
\* 5 entries each, and when the capability fails the output is the template
\* of the comparison, with "Meets requirement: {req}" for each matched
\* must-have.
C14_ExplanationNeverFails ==
  [][ /\ ~(pc' = "raised" /\ scores' # NotYet)
      /\ (pc = "explain" /\ pc' = "returned") =>
           /\ Len(result'.strengths) <= 5
           /\ Len(result'.gaps) <= 5
           /\ Len(result'.recommendations) <= 5
           /\ (\E response \in ExplanationResponses :
                 /\ response.kind # "object"
                 /\ result' = build_final_result(scores, comparison, transferability,
                                                 explanation_of(response, comparison)))
              => /\ \A i \in 1..Len(comparison.matched_must_have) :
                      \E j \in 1..Len(result'.strengths) :
                        result'.strengths[j] =
                          "Meets requirement: "
                            \o comparison.matched_must_have[i].requirement
                 /\ result'.gaps # <<>>
                 /\ result'.recommendations # <<>> ]_vars

\* a requirement that is the name of a skill of the synonym table, and
\* nothing else
NamesTableSkill(req) ==
  \E k \in 1..Len(SKILL_MAPPINGS) :
    Lower(req) = SKILL_MAPPINGS[k][1] \/ Lower(req) = SKILL_MAPPINGS[k][2]

\* C15: when the CV lists a skill under one synonym of the table and a
\* must-have names the same skill under any synonym, the normalized must-have
\* is the canonical name normalize_skill gives, and it is in
\* matched_must_have.
C15_SynonymsMatch ==
  Compared =>
    \A i \in 1..Len(job_requirements.must_have) :
      ( /\ NamesTableSkill(job_requirements.must_have[i])
        /\ \E j \in 1..Len(cv_extracted.skills) :
             normalize_skill(cv_extracted.skills[j])
               = normalize_skill(job_requirements.must_have[i]) ) =>
          /\ job_normalized.must_have[i]
               = normalize_skill(job_requirements.must_have[i])
          /\ InList(job_normalized.must_have[i], comparison.matched_must_have)

QualificationKeywords == {"degree", "bachelor", "certified"}

\* a requirement that names a technology: a canonical name of the synonym
\* table occurs in it after normalization
NamesTechnology(req) ==
  \E k \in 1..Len(SKILL_MAPPINGS) : Contains(Lower(req), SKILL_MAPPINGS[k][2])

InSkillLists(req) ==
  \/ InList(req, comparison.matched_must_have)
  \/ InList(req, comparison.missing_must_have)

\* C16: a must-have with a qualification keyword ("degree", "bachelor",
\* "certified") is never in the skill lists; any other must-have that names a
\* technology is in the skill lists, also when it has "N years" phrasing.
C16_ClassifiedByPriority ==
  Compared =>
    \A i \in 1..Len(job_normalized.must_have) :
      IF ContainsAny(Lower(job_normalized.must_have[i]), QualificationKeywords)
      THEN ~InSkillLists(job_normalized.must_have[i])
      ELSE NamesTechnology(job_normalized.must_have[i])
             => InSkillLists(job_normalized.must_have[i])

\* the N of every "N years" pattern of the must-haves, and 0
YearsAsked(must_have) ==
  {0} \cup UNION {{ParseInt(SubSeq(Lower(req), j, DigitRunEnd(Lower(req), j))) :
                     j \in {h \in 1..Len(req) : YearsMatchAt(Lower(req), h)}} :
                   req \in Range(must_have)}

\* C17: required_years is the largest N of all "N years" patterns of the
\* must-haves, several in one string included, and 0 without any; the
\* status is MET exactly when cv_years >= required_years.
C17_RequiredYearsIsTheMaximum ==
  Compared =>
    /\ \A n \in YearsAsked(job_normalized.must_have) :
         n <= comparison.experience_match.required_years
    /\ comparison.experience_match.required_years
         \in YearsAsked(job_normalized.must_have)
    /\ comparison.experience_match.status = "MET"
         <=> cv_normalized.years_experience_total
               >= comparison.experience_match.required_years

\* a job with a degree requirement and a CV whose education entries are all
\* equivalent credentials, none of them a Bachelor's-or-higher degree
OnlyEquivalentEducation ==
  /\ Compared
  /\ \E i \in 1..Len(job_normalized.must_have) :
       IsDegreeRequirement(job_normalized.must_have[i])
  /\ cv_normalized.education # <<>>
  /\ HoldsNoDegree(cv_normalized.education)

\* C18: with a degree requirement and only equivalent credentials in the CV,
\* has_formal_degree is false and the status is MET exactly when the
\* requirement says "or equivalent"; with a formal degree the status is MET.
C18_EquivalentEducationNeedsClause ==
  /\ OnlyEquivalentEducation =>
       /\ ~comparison.education_match.has_formal_degree
       /\ comparison.education_match.status = "MET"
            <=> Contains(Lower(comparison.education_match.requirement),
                         "or equivalent")
  /\ ( /\ Compared
       /\ \E i \in 1..Len(job_normalized.must_have) :
            IsDegreeRequirement(job_normalized.must_have[i])
       /\ \E i \in 1..Len(cv_normalized.education) :
            cv_normalized.education[i].degree = "BSc" ) =>
         /\ comparison.education_match.has_formal_degree
         /\ comparison.education_match.status = "MET"

LeadershipKeywords == {"lead", "manage", "mentor", "supervise", "direct", "team of"}

\* C19: for a job that requires management, management_match.status is MET
\* exactly when a seniority signal contains, in any casing, one of lead,
\* manage, mentor, supervise, direct, "team of"; for a job that does not, it
\* is MET.
C19_ManagementByLeadershipKeyword ==
  Compared =>
    IF "management" \in DOMAIN job_normalized /\ job_normalized.management.required
    THEN comparison.management_match.status = "MET"
           <=> \E i \in 1..Len(cv_normalized.seniority_signals) :
                 ContainsAny(Lower(cv_normalized.seniority_signals[i]),
                             LeadershipKeywords)
    ELSE comparison.management_match.status = "MET"

\* the scores, in tenths, of the assessments whose requirement is a missing
\* must-have, added up over the first k assessments
RECURSIVE CreditTenths(_)
CreditTenths(k) ==
  IF k = 0 THEN 0
  ELSE CreditTenths(k - 1)
       + (IF InList(transferability.assessments[k].requirement,
                    comparison.missing_must_have)
          THEN transferability.assessments[k].transferability_score.tenths ELSE 0)

\* C20: with must-haves in the job, skills_score is min(100, 0.8 * (exact
\* matches + the transferability scores of the missing must-haves) /
\* total must-haves * 100 + 0.2 * nice_score), truncated to an integer; the
\* nice_score is matched_nice / total_nice * 100, or 100 without
\* nice-to-haves, and takes no transferability credit.  (The value is the
\* quotient of two naturals here: 8 * (10 * exact + tenths) * total_nice
\* + 20 * matched_nice * total_must over total_must * total_nice.)
C20_FinalSkillsFormula ==
  (pc = "scored" /\ comparison.matched_must_have \o comparison.missing_must_have # <<>>) =>
    LET exact_must == Len(comparison.matched_must_have)
        total_must == exact_must + Len(comparison.missing_must_have)
        matched_nice == Len(comparison.matched_nice_have)
        total_nice == matched_nice + Len(comparison.missing_nice_have)
        credit == CreditTenths(Len(transferability.assessments))
        must_part == 8 * (10 * exact_must + credit)
    IN  scores.skills_score =
          Min(100, IF total_nice = 0
                   THEN (must_part + 20 * total_must) \div total_must
                   ELSE (must_part * total_nice + 20 * matched_nice * total_must)
                          \div (total_must * total_nice))


\* C21: experience_score is the tier of the years (with required_years > 0:
\* 100 from 150% of the required years, 90 from 100%, 70 from 75%, 50 from
\* 50%, else 30; with required_years = 0: 100 from 10 years, 90 from 5, 70
\* from 2, else 50), plus 10 and capped at 100 exactly when the job's level
\* contains "senior" or "lead" and so does a seniority signal of the CV.
C21_ExperienceTiers ==
  (pc = "scored" /\ result # NotYet /\ DOMAIN result = {"experience_score"}) =>
    LET cv_years == comparison.experience_match.cv_years
        required_years == comparison.experience_match.required_years
        tier == IF required_years > 0
                THEN IF 100 * cv_years >= 150 * required_years THEN 100
                     ELSE IF 100 * cv_years >= 100 * required_years THEN 90
                     ELSE IF 100 * cv_years >= 75 * required_years THEN 70
                     ELSE IF 100 * cv_years >= 50 * required_years THEN 50
                     ELSE 30
                ELSE IF cv_years >= 10 THEN 100
                     ELSE IF cv_years >= 5 THEN 90
                     ELSE IF cv_years >= 2 THEN 70
                     ELSE 50
        bonus == /\ "role_level" \in DOMAIN job_normalized
                 /\ ContainsAny(Lower(job_normalized.role_level), {"senior", "lead"})
                 /\ \E i \in 1..Len(cv_normalized.seniority_signals) :
                      ContainsAny(Lower(cv_normalized.seniority_signals[i]),
                                  {"senior", "lead"})
    IN  result.experience_score = IF bonus THEN Min(100, tier + 10) ELSE tier

\* 6 years for 8 required (75%) and a senior CV for a lead's job: 70 + 10
C21_Witness ==
  /\ pc = "scored"
  /\ result = [experience_score |-> 80]
  /\ comparison.experience_match.cv_years = 6
  /\ comparison.experience_match.required_years = 8
  /\ job_normalized.role_level = "Team Lead"
  /\ cv_normalized.seniority_signals = <<"Senior Engineer">>

\* C22: BaseScorer's skills_score is the integer part of must_score * 0.8 +
\* nice_score * 0.2, with must_score = matched_must / total_must * 100 and
\* nice_score = matched_nice / total_nice * 100, each 100 when its total is
\* 0; in breakdown no matched count exceeds its total.  (The value is the
\* quotient of two naturals: 80 * matched_must * total_nice + 20 *
\* matched_nice * total_must over total_must * total_nice.)
C22_BaseSkillsFormula ==
  pc = "scored" =>
    LET matched_must == Len(comparison.matched_must_have)
        total_must == matched_must + Len(comparison.missing_must_have)
        matched_nice == Len(comparison.matched_nice_have)
        total_nice == matched_nice + Len(comparison.missing_nice_have)
        must_num == IF total_must = 0 THEN 1 ELSE matched_must
        must_den == IF total_must = 0 THEN 1 ELSE total_must
        nice_num == IF total_nice = 0 THEN 1 ELSE matched_nice
        nice_den == IF total_nice = 0 THEN 1 ELSE total_nice
    IN  /\ base_scores.skills_score =
             (80 * must_num * nice_den + 20 * nice_num * must_den)
               \div (must_den * nice_den)
        /\ base_scores.breakdown.matched_must_count
             <= base_scores.breakdown.total_must_count
        /\ base_scores.breakdown.matched_nice_count
             <= base_scores.breakdown.total_nice_count

\* C23: FinalScorer returns the experience_score and qualifications_score of
\* BaseScorer as they are, whatever the assessments, and overall_score is
\* the integer part of skills_score * 0.5 + experience_score * 0.35 +
\* qualifications_score * 0.15 of the scores it returns.
C23_PassThroughAndOverall ==
  pc = "scored" =>
    /\ scores.experience_score = base_scores.experience_score
    /\ scores.qualifications_score = base_scores.qualifications_score
    /\ scores.overall_score =
         (50 * scores.skills_score + 35 * scores.experience_score
            + 15 * scores.qualifications_score) \div 100

\* an assessment raised the skills score; experience 50, qualifications 60
C23_Witness ==
  /\ pc = "scored"
  /\ scores.skills_score > base_scores.skills_score
  /\ scores.experience_score = 50
  /\ scores.qualifications_score = 60

\* C27: when every transferability score is 0.0, or there is no assessment,
\* FinalScorer's skills_score is BaseScorer's skills_score of the same
\* comparison, whatever the counts of must-haves and nice-to-haves, no
\* must-have at all included.
C27_ZeroCreditKeepsBaseSkills ==
  ( /\ pc = "scored"
    /\ \A i \in 1..Len(transferability.assessments) :
         transferability.assessments[i].transferability_score = Score(0) ) =>
      scores.skills_score = base_scores.skills_score

\* the same for the comparisons with a must-have
C27_ZeroCreditWithMustHaves ==
  ( /\ pc = "scored"
    /\ base_scores.breakdown.total_must_count > 0
    /\ \A i \in 1..Len(transferability.assessments) :
         transferability.assessments[i].transferability_score = Score(0) ) =>
      scores.skills_score = base_scores.skills_score

\* C24: every call of an external capability is bounded: when a call of the
\* extraction, a rating or the explanation gets no answer, the call ends with
\* its safe default and the match computation still completes with a result.
C24_CompletesWithSafeDefaults == <>(pc = "returned")

\* C28: once assess_missing_skills has returned, the assessment at index i
\* carries the requirement string of the i-th missing must-have, whatever the
\* rating capability echoed back.
C28_AssessmentCarriesItsRequirement ==
  (transferability # NotYet) =>
    /\ Len(transferability.assessments) = Len(comparison.missing_must_have)
    /\ \A i \in 1..Len(transferability.assessments) :
         transferability.assessments[i].requirement
           = comparison.missing_must_have[i].requirement

\* C25: normalization has no side effect on its inputs: the step that calls
\* normalize_cv_data and normalize_job_data leaves the CVFacts and the
\* JobRequirements passed in as they were, nested technologies included.
C25_NormalizationLeavesInputs ==
  [][(pc = "normalize" /\ pc' = "compare") =>
       (cv_extracted' = cv_extracted /\ job_requirements' = job_requirements)]_vars

\* the CVFacts with its absent collections empty and its absent scalar 0
C26_CVWithDefaults(cv_data) ==
  [f \in DOMAIN cv_data \cup {"skills", "education", "seniority_signals",
                              "years_experience_total"} |->
     IF f \in DOMAIN cv_data THEN cv_data[f]
     ELSE IF f = "years_experience_total" THEN 0
     ELSE <<>>]

\* the JobRequirements with its absent lists empty and no management required
C26_JobWithDefaults(job_data) ==
  [f \in DOMAIN job_data \cup {"must_have", "nice_to_have", "management"} |->
     IF f \in DOMAIN job_data THEN job_data[f]
     ELSE IF f = "management" THEN [required |-> FALSE]
     ELSE <<>>]

\* C26: with any subset of the fields of CVFacts and JobRequirements missing,
\* normalization, compare_requirements and calculate_base_scores give what
\* they give for the same data with the missing collections empty and the
\* missing scalars 0 or false (the fields that normalization adds to no
\* record stay absent from the normalized records).
C26_MissingFieldsAreDefaults ==
  /\ cv_normalized # NotYet =>
        /\ DOMAIN cv_normalized = DOMAIN cv_extracted
        /\ DOMAIN job_normalized = DOMAIN job_requirements
        /\ C26_CVWithDefaults(cv_normalized)
             = normalize_cv_data(C26_CVWithDefaults(cv_extracted))
        /\ C26_JobWithDefaults(job_normalized)
             = normalize_job_data(C26_JobWithDefaults(job_requirements))
  /\ comparison # NotYet =>
        comparison = compare_requirements(C26_CVWithDefaults(cv_normalized),
                                          C26_JobWithDefaults(job_normalized))
  /\ base_scores # NotYet =>
        base_scores = calculate_base_scores(comparison,
                                            C26_CVWithDefaults(cv_normalized),
                                            C26_JobWithDefaults(job_normalized))

\* a CV with only its skills and a job with only its must-haves, scored
C26_Witness ==
  /\ pc = "based"
  /\ DOMAIN cv_extracted = {"skills"}
  /\ DOMAIN job_requirements = {"must_have"}
  /\ comparison.experience_match.cv_years = 0
  /\ comparison.management_match.status = "MET"
  /\ base_scores.experience_score = 30

\* C29: the tracked usage of a limited feature never exceeds the limit of the
\* tier, whatever the interleaving of the guarded requests of the user, and a
\* denied request has not run the guarded function.
C29_UsageWithinLimit ==
  /\ db.limit # -1 => db.usage <= db.limit
  /\ \A r \in 1..MaxGuarded : request[r].at = "denied" => ~request[r].ran

\* C30: once every re-parse request has ended and the worker has completed
\* every job they enqueued (at least one), the status of the CV is "parsed"
\* or "error".
C30_CompletedJobLeavesParsedOrError ==
  (/\ \A r \in 1..MaxReparse : request.endpoint[r] \in {"returned", "raised"}
   /\ request.queue = 0
   /\ request.worker = "idle"
   /\ request.completed > 0)
    => db.status \in {"parsed", "error"}
====
